---- MODULE Spec2Model ----
(***************************************************************************)
(* Query compiler of datadog_checks.base.utils.db: Query.__init__ and      *)
(* Query.compile (query.py) together with the transformer factories of     *)
(* transform.py.  Python values are encoded as strings: a str is itself,   *)
(* None (or an absent key) is None_, a truthy non-string scalar is         *)
(* NonStr.  Lists and mappings are records with a shape field.           *)
(* The validators of the configuration specifications (spec.py of          *)
(* datadog_checks.dev.tooling.configuration) are modelled the same way,    *)
(* with Missing for an absent key and a tag for each non-string value.     *)
(***************************************************************************)
EXTENDS Naturals, Sequences, FiniteSets, TLC

\* ------------------------------------------------------------------ bounds
\* The most entries (columns plus extras) of a freely combined configuration.
MaxEntries == 3

\* ------------------------------------------------------------ Python values
None_ == "<None>"

NonStr == "<int>"

IsStr(v) == v \notin {None_, NonStr}

Falsy(v) == v \in {None_, ""}

\* The least of a set of integers.
Min(S) == CHOOSE x \in S : \A y \in S : x <= y

\* An exception: its class and the message it was constructed with, kept as
\* a sequence of parts so that "prefixed with" is a statement about sequences.
\* file is the filename a SyntaxError of compile() carries; chained tells
\* whether the exception carries another one as its cause or context.
Exc(kind, msg) ==
    [raised |-> TRUE, kind |-> kind, msg |-> msg, file |-> None_, chained |-> FALSE]

NoExc ==
    [raised |-> FALSE, kind |-> None_, msg |-> <<>>, file |-> None_, chained |-> FALSE]

\* str(e), as '{}'.format(e) renders it: a KeyError shows the repr of its
\* argument, a SyntaxError from compile() appends its location.
Str(e) ==
    IF e.kind = "KeyError" THEN <<"'">> \o e.msg \o <<"'">>
    ELSE IF e.file # None_ THEN e.msg \o <<" (", e.file, ", line 1)">>
    ELSE e.msg

\* A compiled transform (a closure): the factory that made it, the name it was
\* made for, the source it reads (adapters and match items) and the closures
\* it captured, in capture order.
Tr(f, n, src, sub) == [f |-> f, n |-> n, src |-> src, sub |-> sub]

NoTr == Tr(None_, None_, None_, <<>>)

\* One factory invocation, as seen by the registry: which factory, for which
\* name, the registry (its key set) and the modifiers handed to it; owner
\* names the column or extra compile was working on.
Call(f, n, transformers, modifiers) ==
    [f |-> f, n |-> n, reg |-> DOMAIN transformers, mods |-> modifiers,
     owner |-> None_]

Owner(loop, i) == loop \o "#" \o ToString(i)

OwnedBy(calls, loop, i) ==
    [k \in 1..Len(calls) |-> [calls[k] EXCEPT !.owner = Owner(loop, i)]]

\* What a factory call yields: a transform or an exception, the factory calls
\* made (itself first), and the items object of the modifiers as the call
\* leaves it (it is shared with the configuration the modifiers came from).
FOk(tr, calls, items) == [exc |-> NoExc, tr |-> tr, calls |-> calls, items |-> items]

FRaise(kind, msg, calls, items) ==
    [exc |-> Exc(kind, msg), tr |-> NoTr, calls |-> calls, items |-> items]

\* ------------------------------------------------------------ configuration
NoItems == [shape |-> "absent", entries |-> <<>>]

\* The keyword modifiers of a column or extra mapping; an absent key is None_.
NoMods ==
    [source |-> None_, scale |-> None_, items |-> NoItems, expression |-> None_,
     submit_type |-> None_, part |-> None_, total |-> None_, sources |-> <<>>]

\* constants.TIME_UNITS: the unit names temporal_percent accepts.
TIME_UNITS == {"second", "millisecond", "microsecond", "nanosecond"}

\* Expression texts Python's compile(..., mode='eval') rejects.
SyntaxErrorTexts == {"a +"}

\* create_extra_transformer(transformer, source): the adapter from the
\* source-map call shape to the scalar call shape.
create_extra_transformer(transformer, source) ==
    Tr("extra_transformer", transformer.n, source, <<transformer>>)

RECURSIVE CallFactory(_, _, _, _)

\* The calls a factory makes, with its own invocation first.
Called(me, r) == [r EXCEPT !.calls = <<me>> \o r.calls]

\* A submission factory supplied by the caller (gauge, rate, ...): builds a
\* transform for the name.
submission_factory(column_name, transformers, modifiers) ==
    FOk(Tr("submit", column_name, None_, <<>>),
        <<Call("submit", column_name, transformers, modifiers)>>, modifiers.items)

\* A caller-supplied factory that rejects its modifiers.
failing_factory(column_name, transformers, modifiers) ==
    FRaise("RuntimeError", <<"bad modifiers for ", column_name>>,
           <<Call("raises", column_name, transformers, modifiers)>>, modifiers.items)

get_tag(column_name, transformers, modifiers) ==
    FOk(Tr("tag", column_name, None_, <<>>),
        <<Call("get_tag", column_name, transformers, modifiers)>>, modifiers.items)

\* transformers[key](name, transformers, **modifiers): a KeyError when the key
\* is missing, else the factory's own outcome.
Lookup(key, name, transformers, modifiers) ==
    IF key \notin DOMAIN transformers
    THEN FRaise("KeyError", <<key>>, <<>>, modifiers.items)
    ELSE CallFactory(transformers[key], name, transformers, modifiers)

\* get_monotonic_gauge once both sub-transforms were asked for (line 43-47).
monotonic_gauge_closure(column_name, gauge, monotonic_count) ==
    IF monotonic_count.exc.raised
    THEN [monotonic_count EXCEPT !.calls = gauge.calls \o monotonic_count.calls]
    ELSE FOk(Tr("monotonic_gauge", column_name, None_,
                <<gauge.tr, monotonic_count.tr>>),
             gauge.calls \o monotonic_count.calls, monotonic_count.items)

\* get_monotonic_gauge after the gauge sub-transform was asked for (line 41).
monotonic_gauge_count(column_name, transformers, modifiers, gauge) ==
    IF gauge.exc.raised THEN gauge
    ELSE monotonic_gauge_closure(column_name, gauge,
             Lookup("monotonic_count", column_name \o ".count", transformers,
                    [modifiers EXCEPT !.items = gauge.items]))

get_monotonic_gauge(column_name, transformers, modifiers) ==
    Called(Call("get_monotonic_gauge", column_name, transformers, modifiers),
           monotonic_gauge_count(column_name, transformers, modifiers,
               Lookup("gauge", column_name \o ".total", transformers, modifiers)))

\* scale values: None_, a unit name or another string, "<int:N>" for an
\* integer N, "<float>" for any other non-string.
IsIntScale(scale) == scale \in {"<int:1000>", "<int:1>", "<int:0>", "<int:-5>"}

\* get_temporal_percent once the rate sub-transform was asked for (line 66-71).
temporal_percent_closure(column_name, scale, rate) ==
    IF rate.exc.raised THEN rate
    ELSE FOk(Tr("temporal_percent", column_name, scale, <<rate.tr>>),
             rate.calls, rate.items)

get_temporal_percent(column_name, transformers, modifiers) ==
    Called(Call("get_temporal_percent", column_name, transformers, modifiers),
        IF modifiers.scale = None_
        THEN FRaise("ValueError", <<"the scale parameter is required">>,
                    <<>>, modifiers.items)
        ELSE IF IsStr(modifiers.scale) /\ ~IsIntScale(modifiers.scale)
                /\ modifiers.scale # "<float>" /\ modifiers.scale \notin TIME_UNITS
        THEN FRaise("ValueError", <<"the scale parameter must be one of">>,
                    <<>>, modifiers.items)
        ELSE IF modifiers.scale = "<float>" \/ modifiers.scale = NonStr
        THEN FRaise("ValueError", <<"the scale parameter must be an integer">>,
                    <<>>, modifiers.items)
        ELSE temporal_percent_closure(column_name, modifiers.scale,
                 Lookup("rate", column_name, transformers,
                        [modifiers EXCEPT !.scale = None_])))

\* dict.pop(key, None) on one item's data mapping.
Pop(data, key) == [data EXCEPT ![key] = None_]

\* data after the pops of name, type and source.
Popped(data) == Pop(Pop(Pop(data, "name"), "type"), "source")

\* The end of one round of the loop of _compile_match_items (line 212-217):
\* the item's sub-transform was asked for.
match_item_made(i, st, transform_source, made) ==
    IF made.exc.raised
    THEN [st EXCEPT !.exc = made.exc,
                    !.items.entries[i].data = Popped(@),
                    !.calls = st.calls \o made.calls]
    ELSE [st EXCEPT !.items.entries[i].data = Popped(@),
                    !.calls = st.calls \o made.calls,
                    !.compiled = Append(st.compiled,
                        Tr("item", st.items.entries[i].key, transform_source,
                           <<made.tr>>))]

\* One round of the loop of _compile_match_items (line 188-217) on entry i;
\* st holds the items object (changed by the pops), the compiled items and
\* the factory calls.
match_item(i, st, item, data, transformers, modifiers) ==
    LET Fail(msg, d) ==
            [st EXCEPT !.exc = Exc("ValueError", msg), !.items.entries[i].data = d]
        transform_source ==
            IF data.source # None_ THEN data.source ELSE modifiers.source
    IN  IF data.shape # "map"
        THEN Fail(<<"item ", item, " is not a mapping">>, data)
        ELSE IF Falsy(data.name)
        THEN Fail(<<"the name parameter for item ", item, " is required">>,
                  Pop(data, "name"))
        ELSE IF ~IsStr(data.name)
        THEN Fail(<<"the name parameter for item ", item, " must be a string">>,
                  Pop(data, "name"))
        ELSE IF Falsy(data.type)
        THEN Fail(<<"the type parameter for item ", item, " is required">>,
                  Pop(Pop(data, "name"), "type"))
        ELSE IF ~IsStr(data.type)
        THEN Fail(<<"the type parameter for item ", item, " must be a string">>,
                  Pop(Pop(data, "name"), "type"))
        ELSE IF data.type \notin DOMAIN transformers
        THEN Fail(<<"unknown type ", data.type, " for item ", item>>,
                  Pop(Pop(data, "name"), "type"))
        ELSE IF Falsy(transform_source)
        THEN Fail(<<"the source parameter for item ", item, " is required">>,
                  Popped(data))
        ELSE IF ~IsStr(transform_source)
        THEN Fail(<<"the source parameter for item ", item, " must be a string">>,
                  Popped(data))
        ELSE match_item_made(i, st, transform_source,
                 CallFactory(transformers[data.type], data.name, transformers,
                             [modifiers EXCEPT !.items = NoItems, !.source = None_]))

RECURSIVE compile_match_loop(_, _, _, _)
compile_match_loop(i, st, transformers, modifiers) ==
    IF st.exc.raised \/ i > Len(st.items.entries) THEN st
    ELSE compile_match_loop(
             i + 1,
             match_item(i, st, st.items.entries[i].key, st.items.entries[i].data,
                        transformers, modifiers),
             transformers, modifiers)

compile_match_items(transformers, modifiers) ==
    IF modifiers.items.shape = "absent"
    THEN [exc |-> Exc("ValueError", <<"the items parameter is required">>),
          items |-> modifiers.items, compiled |-> <<>>, calls |-> <<>>]
    ELSE IF modifiers.items.shape # "map"
    THEN [exc |-> Exc("ValueError", <<"the items parameter must be a mapping">>),
          items |-> modifiers.items, compiled |-> <<>>, calls |-> <<>>]
    ELSE compile_match_loop(
             1,
             [exc |-> NoExc, items |-> modifiers.items, compiled |-> <<>>,
              calls |-> <<>>],
             transformers, modifiers)

\* get_match once its items were compiled (line 78-83).
match_closure(column_name, compiled_items) ==
    [exc |-> compiled_items.exc,
     tr |-> IF compiled_items.exc.raised THEN NoTr
            ELSE Tr("match", column_name, None_, compiled_items.compiled),
     calls |-> compiled_items.calls,
     items |-> compiled_items.items]

get_match(column_name, transformers, modifiers) ==
    Called(Call("get_match", column_name, transformers, modifiers),
           match_closure(column_name, compile_match_items(transformers, modifiers)))

\* get_expression once the submit_type transform was asked for (line 123-128).
expression_submit_closure(name, submit_method) ==
    IF submit_method.exc.raised THEN submit_method
    ELSE FOk(Tr("expression", name, None_,
                <<create_extra_transformer(submit_method.tr, None_)>>),
             submit_method.calls, submit_method.items)

get_expression(name, transformers, modifiers) ==
    Called(Call("get_expression", name, transformers, modifiers),
        IF modifiers.expression = None_
        THEN FRaise("ValueError", <<"the expression parameter is required">>,
                    <<>>, modifiers.items)
        ELSE IF ~IsStr(modifiers.expression)
        THEN FRaise("ValueError", <<"the expression parameter must be a string">>,
                    <<>>, modifiers.items)
        ELSE IF modifiers.expression = ""
        THEN FRaise("ValueError", <<"the expression parameter must not be empty">>,
                    <<>>, modifiers.items)
        ELSE IF modifiers.expression \in SyntaxErrorTexts
        THEN [exc |-> [Exc("SyntaxError", <<"invalid syntax">>) EXCEPT !.file = name],
              tr |-> NoTr, calls |-> <<>>, items |-> modifiers.items]
        ELSE IF modifiers.submit_type = None_
        THEN FOk(Tr("expression", name, None_, <<>>), <<>>, modifiers.items)
        ELSE IF modifiers.submit_type \notin DOMAIN transformers
        THEN FRaise("ValueError", <<"unknown submit_type ", modifiers.submit_type>>,
                    <<>>, modifiers.items)
        ELSE expression_submit_closure(name,
                 CallFactory(transformers[modifiers.submit_type], name, transformers,
                             [modifiers EXCEPT !.sources = <<>>, !.expression = None_,
                                               !.submit_type = None_])))

\* get_percent once the gauge transform was asked for (line 158-164).
percent_closure(name, gauge) ==
    IF gauge.exc.raised THEN gauge
    ELSE FOk(Tr("percent", name, None_, <<create_extra_transformer(gauge.tr, None_)>>),
             gauge.calls, gauge.items)

\* The validation of one of percent's two parameters (line 141-155).
percent_parameter(which, value, available_sources) ==
    IF value = None_
    THEN Exc("ValueError", <<"the " \o which \o " parameter is required">>)
    ELSE IF ~IsStr(value)
    THEN Exc("ValueError", <<"the " \o which \o " parameter must be a string">>)
    ELSE IF value \notin available_sources
    THEN Exc("ValueError", <<"the " \o which \o " parameter ", value,
                             " is not an available source">>)
    ELSE NoExc

get_percent(name, transformers, modifiers) ==
    Called(Call("get_percent", name, transformers, modifiers),
        IF percent_parameter("part", modifiers.part, DOMAIN modifiers.sources).raised
        THEN [exc |-> percent_parameter("part", modifiers.part, DOMAIN modifiers.sources),
              tr |-> NoTr, calls |-> <<>>, items |-> modifiers.items]
        ELSE IF percent_parameter("total", modifiers.total,
                                  DOMAIN modifiers.sources).raised
        THEN [exc |-> percent_parameter("total", modifiers.total,
                                        DOMAIN modifiers.sources),
              tr |-> NoTr, calls |-> <<>>, items |-> modifiers.items]
        ELSE percent_closure(name,
                 Lookup("gauge", name, transformers,
                        [modifiers EXCEPT !.sources = <<>>, !.part = None_,
                                          !.total = None_])))

\* Calling the value a registry holds under a type name; calling None (a
\* failed registry .get) is a TypeError.
CallFactory(f, name, transformers, modifiers) ==
    CASE f = "get_tag" -> get_tag(name, transformers, modifiers)
      [] f = "get_monotonic_gauge" -> get_monotonic_gauge(name, transformers, modifiers)
      [] f = "get_temporal_percent" -> get_temporal_percent(name, transformers, modifiers)
      [] f = "get_match" -> get_match(name, transformers, modifiers)
      [] f = "get_expression" -> get_expression(name, transformers, modifiers)
      [] f = "get_percent" -> get_percent(name, transformers, modifiers)
      [] f = "submit" -> submission_factory(name, transformers, modifiers)
      [] f = "raises" -> failing_factory(name, transformers, modifiers)
      [] OTHER -> FRaise("TypeError", <<"'NoneType' object is not callable">>,
                         <<>>, modifiers.items)

COLUMN_TRANSFORMERS ==
    [temporal_percent |-> "get_temporal_percent",
     monotonic_gauge |-> "get_monotonic_gauge",
     tag |-> "get_tag",
     match |-> "get_match"]

EXTRA_TRANSFORMERS == [expression |-> "get_expression", percent |-> "get_percent"]

\* ------------------------------------------------- transforms at call time
\* The rows a compiled transform is called with: each a source map, handed
\* around by reference.
RowMaps ==
    [row1 |-> [a |-> "OK", b |-> "7"],
     row2 |-> [a |-> "NOPE", b |-> "7"],
     row3 |-> [b |-> "OK"]]

IsMap(v) == v \in DOMAIN RowMaps

\* What a call of a closure yields: the value returned or the exception
\* raised, and the calls the closure itself made, in order.
Returned(ret, calls) == [exc |-> NoExc, ret |-> ret, calls |-> calls]

Raised(exc, calls) == [exc |-> exc, ret |-> None_, calls |-> calls]

\* One call a closure made: the callee, its positional and keyword
\* arguments, and what came back.
Invocation(tr, args, kwargs, res) ==
    [tr |-> tr, args |-> args, kwargs |-> kwargs, exc |-> res.exc]

\* A call with fewer positional arguments than the signature requires.
MissingArgument(f, parameter) ==
    Raised(Exc("TypeError", <<f, "() missing 1 required positional argument: ",
                              parameter>>), <<>>)

RECURSIVE Invoke(_, _, _)

\* The closure of a caller-supplied submission factory: hands the value and
\* the keyword context to the sink.
submit(tr, args, kwargs) ==
    IF args = <<>> THEN MissingArgument("submit", "value")
    ELSE Returned(None_, <<>>)

\* tag(value, *_, **kwargs) (line 30-34).
tag(tr, args, kwargs) ==
    IF args = <<>> THEN MissingArgument("tag", "value")
    ELSE Returned(tr.n \o ":" \o args[1], <<>>)

\* monotonic_gauge after both calls (line 45).
monotonic_gauge_done(tr, args, kwargs, first, second) ==
    IF second.exc.raised
    THEN Raised(second.exc, <<Invocation(tr.sub[1], <<args[1]>>, kwargs, first),
                              Invocation(tr.sub[2], <<args[1]>>, kwargs, second)>>)
    ELSE Returned(None_, <<Invocation(tr.sub[1], <<args[1]>>, kwargs, first),
                           Invocation(tr.sub[2], <<args[1]>>, kwargs, second)>>)

\* monotonic_gauge after gauge(value, **kwargs) (line 44-45).
monotonic_gauge_first(tr, args, kwargs, first) ==
    IF first.exc.raised
    THEN Raised(first.exc, <<Invocation(tr.sub[1], <<args[1]>>, kwargs, first)>>)
    ELSE monotonic_gauge_done(tr, args, kwargs, first,
                              Invoke(tr.sub[2], <<args[1]>>, kwargs))

\* A monotonic_gauge that calls monotonic_count before gauge.
monotonic_gauge_swapped(tr, args, kwargs) ==
    IF args = <<>> THEN MissingArgument("monotonic_gauge", "value")
    ELSE monotonic_gauge_first([tr EXCEPT !.sub = <<tr.sub[2], tr.sub[1]>>], args,
                               kwargs, Invoke(tr.sub[2], <<args[1]>>, kwargs))

\* monotonic_gauge(value, *_, **kwargs) (line 43-45).
monotonic_gauge(tr, args, kwargs) ==
    IF args = <<>> THEN MissingArgument("monotonic_gauge", "value")
    ELSE monotonic_gauge_first(tr, args, kwargs,
                               Invoke(tr.sub[1], <<args[1]>>, kwargs))

\* total_time_to_temporal_percent(value, scale=scale): the share of the
\* elapsed time, written out.
total_time_to_temporal_percent(value, scale) ==
    "100*" \o value \o "/" \o scale

\* temporal_percent after rate(...) (line 69).
temporal_percent_done(tr, converted, kwargs, rate) ==
    IF rate.exc.raised
    THEN Raised(rate.exc, <<Invocation(tr.sub[1], <<converted>>, kwargs, rate)>>)
    ELSE Returned(None_, <<Invocation(tr.sub[1], <<converted>>, kwargs, rate)>>)

\* temporal_percent(value, *_, **kwargs) (line 68-69).
temporal_percent(tr, args, kwargs) ==
    IF args = <<>> THEN MissingArgument("temporal_percent", "value")
    ELSE temporal_percent_done(tr, total_time_to_temporal_percent(args[1], tr.src),
             kwargs,
             Invoke(tr.sub[1], <<total_time_to_temporal_percent(args[1], tr.src)>>,
                    kwargs))

\* The compiled items a raw value selects (value in compiled_items).
Selected(compiled_items, value) ==
    {k \in 1..Len(compiled_items) : compiled_items[k].n = value}

\* match after transformer(sources[source], **kwargs) (line 81).
match_done(item, value, kwargs, res) ==
    IF res.exc.raised
    THEN Raised(res.exc, <<Invocation(item.sub[1], <<value>>, kwargs, res)>>)
    ELSE Returned(None_, <<Invocation(item.sub[1], <<value>>, kwargs, res)>>)

\* match with the item found (line 80-81).
match_item_call(item, sources, kwargs) ==
    IF ~IsMap(sources)
    THEN Raised(Exc("TypeError", <<"string indices must be integers">>), <<>>)
    ELSE IF item.src \notin DOMAIN RowMaps[sources]
    THEN Raised(Exc("KeyError", <<item.src>>), <<>>)
    ELSE match_done(item, RowMaps[sources][item.src], kwargs,
                    Invoke(item.sub[1], <<RowMaps[sources][item.src]>>, kwargs))

\* A match that dispatches to its first item whatever the raw value is.
match_first_item(tr, args, kwargs) ==
    IF Len(args) < 2
    THEN MissingArgument("match", IF args = <<>> THEN "value" ELSE "sources")
    ELSE IF tr.sub = <<>>
    THEN Returned(None_, <<>>)
    ELSE match_item_call(tr.sub[1], args[2], kwargs)

\* match(value, sources, *_, **kwargs) (line 78-81).
match(tr, args, kwargs) ==
    IF Len(args) < 2
    THEN MissingArgument("match", IF args = <<>> THEN "value" ELSE "sources")
    ELSE IF Selected(tr.sub, args[1]) = {}
    THEN Returned(None_, <<>>)
    ELSE match_item_call(tr.sub[CHOOSE k \in Selected(tr.sub, args[1]) : TRUE],
                         args[2], kwargs)

\* Calling a compiled column transform.
Invoke(tr, args, kwargs) ==
    CASE tr.f = "submit" -> submit(tr, args, kwargs)
      [] tr.f = "tag" -> tag(tr, args, kwargs)
      [] tr.f = "monotonic_gauge" -> monotonic_gauge(tr, args, kwargs)
      [] tr.f = "temporal_percent" -> temporal_percent(tr, args, kwargs)
      [] tr.f = "match" -> match(tr, args, kwargs)
      [] OTHER -> Raised(Exc("TypeError", <<"'NoneType' object is not callable">>),
                         <<>>)

\* --------------------------------------- get_expression: source substitution
\* An expression text and a source name are sequences of characters.
MaxText == 4

Quotes == {"'"}

Chars == {"a", "b", "c"} \cup Quotes

SelectLen(names, n) == SelectSeq(names, LAMBDA s : Len(s) = n)

RECURSIVE LongestFirst(_, _)

\* sorted(available_sources, key=lambda s: -len(s)) (line 99): by length,
\* longest first, names of one length in the order they were declared.
LongestFirst(names, n) ==
    IF n = 0 THEN <<>> ELSE SelectLen(names, n) \o LongestFirst(names, n - 1)

\* The names in the order the alternation tries them (line 99-105).
Alternation(names) == LongestFirst(names, MaxText + 1)

\* The name is in the text at pos.
OccursAt(text, pos, name) ==
    /\ pos + Len(name) - 1 <= Len(text)
    /\ SubSeq(text, pos, pos + Len(name) - 1) = name

\* (?<!"|') and (?!"|') of SOURCE_PATTERN (line 23).
LookBehind(text, pos) == pos = 1 \/ text[pos - 1] \notin Quotes

LookAhead(text, end) == end > Len(text) \/ text[end] \notin Quotes

\* The alternatives that match at pos with the look-ahead satisfied; the
\* regular expression takes the first of them.
MatchesAt(text, pos, alts) ==
    {k \in 1..Len(alts) :
        OccursAt(text, pos, alts[k]) /\ LookAhead(text, pos + Len(alts[k]))}

\* The alternative SOURCE_PATTERN matches at pos, 0 when it does not match.
FirstMatch(text, pos, alts) ==
    IF ~LookBehind(text, pos) \/ MatchesAt(text, pos, alts) = {} THEN 0
    ELSE Min(MatchesAt(text, pos, alts))

RECURSIVE Scan(_, _, _, _)

\* re.sub (line 107-112): the matches from left to right, each starting
\* where the one before ended.
Scan(text, pos, alts, found) ==
    IF pos > Len(text) THEN found
    ELSE IF FirstMatch(text, pos, alts) = 0 THEN Scan(text, pos + 1, alts, found)
    ELSE Scan(text, pos + Len(alts[FirstMatch(text, pos, alts)]), alts,
              Append(found, [pos |-> pos, name |-> alts[FirstMatch(text, pos, alts)]]))

\* The matches of the source pattern in an expression text.
Matches(text, names) == Scan(text, 1, Alternation(names), <<>>)

RECURSIVE Replace(_, _, _, _)

\* The text with every match replaced by SOURCES["<name>"] (line 110).
Replace(text, pos, found, k) ==
    IF pos > Len(text) THEN <<>>
    ELSE IF k <= Len(found) /\ found[k].pos = pos
    THEN <<"SOURCES[">> \o found[k].name \o <<"]">>
         \o Replace(text, pos + Len(found[k].name), found, k + 1)
    ELSE <<text[pos]>> \o Replace(text, pos + 1, found, k)

\* ------------------------------------------- get_expression: evaluation
\* The names of ALLOWED_GLOBALS['__builtins__'] (line 14-20).
ALLOWED_BUILTINS ==
    {"abs", "all", "any", "bool", "divmod", "float", "int", "len", "max", "min",
     "pow", "str", "sum"}

\* The keys of ALLOWED_GLOBALS itself, the globals of every evaluation.
ALLOWED_GLOBALS == {"__builtins__"}

\* The keys of the locals of one evaluation, {'SOURCES': sources} (line 126).
Locals == {"SOURCES"}

\* A compiled expression. name: an identifier; source: SOURCES["id"];
\* attribute: id.attr; call: id(SOURCES["arg"]); method: id.attr('arg', None).
Expr(node, id, attr, arg) == [node |-> node, id |-> id, attr |-> attr, arg |-> arg]

BuiltinFunction(id) == "<built-in function " \o id \o ">"

\* The object a name is bound to in an evaluation, Python's lookup order:
\* the locals, the globals, then the builtins of the globals; None_ when the
\* name is bound nowhere. builtins is ALLOWED_GLOBALS['__builtins__'] as it
\* is when the evaluation runs.
Resolve(id, row, builtins) ==
    IF id \in Locals THEN row
    ELSE IF id \in ALLOWED_GLOBALS THEN "<dict __builtins__>"
    ELSE IF id \in builtins THEN BuiltinFunction(id)
    ELSE None_

NameError(id) == Exc("NameError", <<"name '", id, "' is not defined">>)

\* The attributes an object has: every object has __class__, a dict has
\* its methods.
Attributes(obj) ==
    IF IsMap(obj) \/ obj = "<dict __builtins__>" THEN {"__class__", "pop", "get"}
    ELSE {"__class__"}

\* What an evaluation yields: the value or the exception, and the builtins
\* dict as the evaluation leaves it.
Evaluated(exc, ret, builtins) == [exc |-> exc, ret |-> ret, builtins |-> builtins]

\* id.attr('arg', None) on the object the name is bound to.
CallMethod(obj, e, row, builtins) ==
    IF e.attr \notin Attributes(obj) \ {"__class__"}
    THEN Evaluated(Exc("AttributeError", <<e.attr>>), None_, builtins)
    ELSE IF obj = "<dict __builtins__>"
    THEN Evaluated(NoExc,
                   IF e.arg \in builtins THEN BuiltinFunction(e.arg) ELSE None_,
                   IF e.attr = "pop" THEN builtins \ {e.arg} ELSE builtins)
    ELSE Evaluated(NoExc,
                   IF e.arg \in DOMAIN RowMaps[obj] THEN RowMaps[obj][e.arg] ELSE None_,
                   builtins)

\* eval(expression, ALLOWED_GLOBALS, {'SOURCES': sources}) (line 126, 133).
Eval(e, row, builtins) ==
    IF e.node = "source"
    THEN IF e.id \in DOMAIN RowMaps[row]
         THEN Evaluated(NoExc, RowMaps[row][e.id], builtins)
         ELSE Evaluated(Exc("KeyError", <<e.id>>), None_, builtins)
    ELSE IF Resolve(e.id, row, builtins) = None_
    THEN Evaluated(NameError(e.id), None_, builtins)
    ELSE IF e.node = "name"
    THEN Evaluated(NoExc, Resolve(e.id, row, builtins), builtins)
    ELSE IF e.node = "attribute"
    THEN IF e.attr \in Attributes(Resolve(e.id, row, builtins))
         THEN Evaluated(NoExc, "<" \o e.id \o "." \o e.attr \o ">", builtins)
         ELSE Evaluated(Exc("AttributeError", <<e.attr>>), None_, builtins)
    ELSE IF e.node = "call"
    THEN IF e.arg \notin DOMAIN RowMaps[row]
         THEN Evaluated(Exc("KeyError", <<e.arg>>), None_, builtins)
         ELSE IF e.id \in Locals \cup ALLOWED_GLOBALS
         THEN Evaluated(Exc("TypeError", <<"'dict' object is not callable">>),
                        None_, builtins)
         ELSE Evaluated(NoExc, e.id \o "(" \o RowMaps[row][e.arg] \o ")", builtins)
    ELSE CallMethod(Resolve(e.id, row, builtins), e, row, builtins)

\* --------------------------------------------------------------- query.py
\* A Python attribute holding None, a list or a tuple.
PyNone == [shape |-> "none", v |-> <<>>]

PyList(s) == [shape |-> "list", v |-> s]

\* A tuple that leaves out the entries made for ignored columns.
PyTupleCompact(s) ==
    [shape |-> "tuple", v |-> SelectSeq(s, LAMBDA e : e.name # None_)]

PyTuple(s) == [shape |-> "tuple", v |-> s]

\* Where in compile an exception was raised (bookkeeping for the properties).
At(loop, index, stage) == [loop |-> loop, index |-> index, stage |-> stage]

NoAt == At(None_, 0, None_)

\* The context raised as a ValueError whatever the factory raised.
RewrapAsValueError(e, kind_of_entry, type, name, query_name) ==
    [raised |-> TRUE,
     kind |-> "ValueError",
     msg |-> <<"error compiling type ", type, " for " \o kind_of_entry \o " ",
               name, " of ", query_name, ": ">> \o Str(e),
     file |-> None_,
     chained |-> FALSE]

\* raise_from(type(e)(error), None): same class, context text prepended, the
\* original exception not chained.
Rewrap(e, kind_of_entry, type, name, query_name) ==
    [raised |-> TRUE,
     kind |-> e.kind,
     msg |-> <<"error compiling type ", type, " for " \o kind_of_entry \o " ",
               name, " of ", query_name, ": ">> \o Str(e),
     file |-> None_,
     chained |-> FALSE]

\* A column's binding: Python None, or the pair (kind, transformer).
NoneBinding == [isNone |-> TRUE, kind |-> None_, tr |-> NoTr]

Binding(kind, tr) == [isNone |-> FALSE, kind |-> kind, tr |-> tr]

\* An ignored column recorded the way a source column is, without its name.
IgnoredAsSource == [name |-> None_, binding |-> Binding(None_, NoTr)]

\* The entry recorded for a column ignored via configuration (line 54).
IgnoredColumn == [name |-> None_, binding |-> NoneBinding]

\* Every column's type kept as the first half of its binding.
ColumnKindOfType(column_type) == column_type

\* The first half of a compiled column's binding (line 99-104).
ColumnKind(column_type) == IF column_type = "tag" THEN column_type ELSE None_

\* The position recorded 0-based.
DefineZeroBased(sources, name, type, i) ==
    [n \in DOMAIN sources \cup {name} |->
        IF n = name THEN [type |-> type, index |-> i - 1] ELSE sources[n]]

\* sources[name] = {'type': type, 'index': i}.
Define(sources, name, type, i) ==
    [n \in DOMAIN sources \cup {name} |->
        IF n = name THEN [type |-> type, index |-> i] ELSE sources[n]]

\* The end of one round of the column loop (line 86-104): the factory was
\* called for column i.
column_made(i, st, column, query_name, made) ==
    IF made.exc.raised
    THEN [st EXCEPT !.exc = Rewrap(made.exc, "column", column.type, column.name,
                                   query_name),
                    !.raw = made.exc,
                    !.at = At("columns", i, "factory"),
                    !.sources = Define(@, column.name, "column", i),
                    !.entries[i].mods.items = made.items,
                    !.calls = st.calls \o OwnedBy(made.calls, "columns", i)]
    ELSE [st EXCEPT !.sources = Define(@, column.name, "column", i),
                    !.entries[i].mods.items = made.items,
                    !.calls = st.calls \o OwnedBy(made.calls, "columns", i),
                    !.data = Append(st.data,
                        [name |-> column.name,
                         binding |-> Binding(ColumnKind(column.type), made.tr)])]

\* One round of the column loop (line 51-104), on column i.
column_step(i, st, column, query_name, column_transformers) ==
    LET Fail(msg, stage) ==
            [st EXCEPT !.exc = Exc("ValueError", msg), !.at = At("columns", i, stage)]
        Fail2(msg) ==
            [st EXCEPT !.exc = Exc("ValueError", msg), !.at = At("columns", i, "type"),
                       !.sources = Define(@, column.name, "column", i)]
    IN  IF column.shape = "empty"
        THEN [st EXCEPT !.data = Append(st.data, IgnoredColumn)]
        ELSE IF column.shape # "map"
        THEN Fail(<<"column #", ToString(i), " of ", query_name, " is not a mapping">>,
                  "shape")
        ELSE IF Falsy(column.name)
        THEN Fail(<<"field name for column #", ToString(i), " of ", query_name,
                    " is required">>, "name")
        ELSE IF ~IsStr(column.name)
        THEN Fail(<<"field name for column #", ToString(i), " of ", query_name,
                    " must be a string">>, "name")
        ELSE IF column.name \in DOMAIN st.sources
        THEN Fail(<<"the name ", column.name, " of ", query_name,
                    " was already defined in ", st.sources[column.name].type,
                    " #", ToString(st.sources[column.name].index)>>, "duplicate")
        ELSE IF Falsy(column.type)
        THEN Fail2(<<"field type for column ", column.name, " of ", query_name,
                     " is required">>)
        ELSE IF ~IsStr(column.type)
        THEN Fail2(<<"field type for column ", column.name, " of ", query_name,
                     " must be a string">>)
        ELSE IF column.type = "source"
        THEN [st EXCEPT !.sources = Define(@, column.name, "column", i),
                        !.data = Append(st.data,
                            [name |-> column.name, binding |-> Binding(None_, NoTr)])]
        ELSE IF column.type \notin DOMAIN column_transformers
        THEN Fail2(<<"unknown type ", column.type, " for column ", column.name,
                     " of ", query_name>>)
        ELSE column_made(i, st, column, query_name,
                 CallFactory(column_transformers[column.type], column.name,
                             column_transformers, column.mods))

RECURSIVE column_loop(_, _, _, _)
column_loop(i, st, query_name, column_transformers) ==
    IF st.exc.raised \/ i > Len(st.entries) THEN st
    ELSE column_loop(i + 1,
                     column_step(i, st, st.entries[i], query_name, column_transformers),
                     query_name, column_transformers)

\* column_transformers.copy() followed by .pop('tag').
WithoutTag(column_transformers) ==
    [k \in DOMAIN column_transformers \ {"tag"} |-> column_transformers[k]]

\* dict.get(key, default) on a registry.
Get(transformers, key, default) ==
    IF key \in DOMAIN transformers THEN transformers[key] ELSE default

\* The end of one round of the extras loop (line 155-165): the factory was
\* called for extra i, whose type resolved to extra_type.
extra_made(i, st, extra, extra_type, query_name, submission_transformers, made) ==
    IF made.exc.raised
    THEN [st EXCEPT !.exc = Rewrap(made.exc, "extra", extra_type, extra.name,
                                   query_name),
                    !.raw = made.exc,
                    !.at = At("extras", i, "factory"),
                    !.sources = Define(@, extra.name, "extra", i),
                    !.entries[i].mods.items = made.items,
                    !.calls = st.calls \o OwnedBy(made.calls, "extras", i)]
    ELSE [st EXCEPT !.sources = Define(@, extra.name, "extra", i),
                    !.entries[i].mods.items = made.items,
                    !.calls = st.calls \o OwnedBy(made.calls, "extras", i),
                    !.data = Append(st.data,
                        [name |-> extra.name,
                         tr |-> IF extra_type \in DOMAIN submission_transformers
                                THEN create_extra_transformer(made.tr, extra.mods.source)
                                ELSE made.tr])]

\* The modifiers handed to an extra's factory (line 145-153).
extra_modifiers(i, sources, extra, extra_type, submission_transformers) ==
    IF extra_type \in DOMAIN submission_transformers
    THEN [extra.mods EXCEPT !.source = None_]
    ELSE [extra.mods EXCEPT !.sources = Define(sources, extra.name, "extra", i)]

\* One round of the extras loop (line 114-165), on extra i.
extra_step(i, st, extra, extra_type, query_name, extra_transformers, submission_transformers) ==
    LET Fail(msg, stage) ==
            [st EXCEPT !.exc = Exc("ValueError", msg), !.at = At("extras", i, stage)]
        Fail2(msg, stage) ==
            [st EXCEPT !.exc = Exc("ValueError", msg), !.at = At("extras", i, stage),
                       !.sources = Define(@, extra.name, "extra", i)]
    IN  IF extra.shape # "map"
        THEN Fail(<<"extra #", ToString(i), " of ", query_name, " is not a mapping">>,
                  "shape")
        ELSE IF Falsy(extra.name)
        THEN Fail(<<"field name for extra #", ToString(i), " of ", query_name,
                    " is required">>, "name")
        ELSE IF ~IsStr(extra.name)
        THEN Fail(<<"field name for extra #", ToString(i), " of ", query_name,
                    " must be a string">>, "name")
        ELSE IF extra.name \in DOMAIN st.sources
        THEN Fail(<<"the name ", extra.name, " of ", query_name,
                    " was already defined in ", st.sources[extra.name].type,
                    " #", ToString(st.sources[extra.name].index)>>, "duplicate")
        ELSE IF Falsy(extra.type) /\ extra.mods.expression = None_
        THEN Fail2(<<"field type for extra ", extra.name, " of ", query_name,
                     " is required">>, "type")
        ELSE IF ~Falsy(extra.type) /\ ~IsStr(extra.type)
        THEN Fail2(<<"field type for extra ", extra.name, " of ", query_name,
                     " must be a string">>, "type")
        ELSE IF ~Falsy(extra.type)
                /\ extra_type \notin DOMAIN extra_transformers
                /\ extra_type \notin DOMAIN submission_transformers
        THEN Fail2(<<"unknown type ", extra_type, " for extra ", extra.name,
                     " of ", query_name>>, "type")
        ELSE IF extra_type \in DOMAIN submission_transformers
                /\ Falsy(extra.mods.source)
        THEN Fail2(<<"field source for extra ", extra.name, " of ", query_name,
                     " is required">>, "source")
        ELSE extra_made(i, st, extra, extra_type, query_name, submission_transformers,
                 CallFactory(
                     Get(extra_transformers, extra_type,
                         Get(submission_transformers, extra_type, None_)),
                     extra.name, submission_transformers,
                     extra_modifiers(i, st.sources, extra, extra_type,
                                     submission_transformers)))

\* extra.get('type'), defaulted to 'expression' when falsy (line 132-135).
ExtraType(extra) == IF Falsy(extra.type) THEN "expression" ELSE extra.type

RECURSIVE extra_loop(_, _, _, _, _)
extra_loop(i, st, query_name, extra_transformers, submission_transformers) ==
    IF st.exc.raised \/ i > Len(st.entries) THEN st
    ELSE extra_loop(i + 1,
                    extra_step(i, st, st.entries[i], ExtraType(st.entries[i]),
                               query_name, extra_transformers, submission_transformers),
                    query_name, extra_transformers, submission_transformers)

\* A compile that assigns name and query as soon as they are validated.
OutcomeEarlyName(exc, at, st, data) ==
    [exc |-> exc, at |-> at, raw |-> st.raw, calls |-> st.calls,
     sources |-> st.sources, query_data |-> data,
     name |-> IF at.loop = "fields" THEN None_ ELSE data.name,
     query |-> IF at.loop = "fields" THEN None_ ELSE data.query,
     columns |-> PyNone, extras |-> PyNone, tags |-> PyNone]

\* What one call of compile on an uncompiled Query does when it raises: the
\* exception, the factory calls made, the raw configuration as the call
\* leaves it, and the attributes, which it has not assigned.  raw is the
\* exception a factory raised, sources the names defined (both local to the
\* call, kept for the properties).
Outcome(exc, at, st, data) ==
    [exc |-> exc, at |-> at, raw |-> st.raw, calls |-> st.calls,
     sources |-> st.sources, query_data |-> data,
     name |-> None_, query |-> None_, columns |-> PyNone, extras |-> PyNone,
     tags |-> PyNone]

\* The start of a loop: nothing compiled, the names defined so far.
LoopState(entries, sources, calls) ==
    [exc |-> NoExc, at |-> NoAt, raw |-> NoExc, sources |-> sources, data |-> <<>>,
     calls |-> calls, entries |-> entries]

\* self.tags = tags, with tags = query_data.get('tags', []) (line 43, 171).
CompiledTags(tags) ==
    IF tags.shape = "list" THEN PyList(tags.v)
    ELSE IF tags.shape = "absent" THEN PyList(<<>>) ELSE PyNone

\* The end of compile (line 167-172): both loops have run.
compile_finish(data, cols, exs) ==
    IF exs.exc.raised
    THEN Outcome(exs.exc, exs.at, exs,
                 [data EXCEPT !.columns.v = cols.entries, !.extras.v = exs.entries])
    ELSE [exc |-> NoExc, at |-> NoAt, raw |-> NoExc, calls |-> exs.calls,
          sources |-> exs.sources,
          query_data |-> [data EXCEPT !.columns.v = cols.entries,
                                      !.extras.v = exs.entries],
          name |-> data.name, query |-> data.query,
          columns |-> PyTuple(cols.data), extras |-> PyTuple(exs.data),
          tags |-> CompiledTags(data.tags)]

\* compile after the column loop (line 106-165).
compile_extras(data, cols, column_transformers, extra_transformers) ==
    IF cols.exc.raised
    THEN Outcome(cols.exc, cols.at, cols, [data EXCEPT !.columns.v = cols.entries])
    ELSE IF "tag" \notin DOMAIN column_transformers
    THEN Outcome(Exc("KeyError", <<"tag">>), At("pop", 0, "tag"), cols,
                 [data EXCEPT !.columns.v = cols.entries])
    ELSE IF data.extras.shape \notin {"absent", "list"}
    THEN Outcome(Exc("ValueError", <<"field extras for ", data.name,
                                     " must be a list">>),
                 At("fields", 0, "extras"), cols,
                 [data EXCEPT !.columns.v = cols.entries])
    ELSE compile_finish(data, cols,
             extra_loop(1, LoopState(data.extras.v, cols.sources, cols.calls),
                        data.name, extra_transformers,
                        WithoutTag(column_transformers)))

\* compile on an uncompiled Query (line 25-172).
compile_body(data, column_transformers, extra_transformers) ==
    LET Fail(msg, stage) ==
            Outcome(Exc("ValueError", msg), At("fields", 0, stage),
                    LoopState(<<>>, <<>>, <<>>), data)
    IN  IF Falsy(data.name) THEN Fail(<<"query field name is required">>, "name")
        ELSE IF ~IsStr(data.name)
        THEN Fail(<<"query field name must be a string">>, "name")
        ELSE IF Falsy(data.query)
        THEN Fail(<<"field query for ", data.name, " is required">>, "query")
        ELSE IF ~IsStr(data.query)
        THEN Fail(<<"field query for ", data.name, " must be a string">>, "query")
        ELSE IF data.columns.shape = "absent"
                \/ (data.columns.shape = "list" /\ data.columns.v = <<>>)
        THEN Fail(<<"field columns for ", data.name, " is required">>, "columns")
        ELSE IF data.columns.shape # "list"
        THEN Fail(<<"field columns for ", data.name, " must be a list">>, "columns")
        ELSE IF data.tags.shape = "notlist"
        THEN Fail(<<"field tags for ", data.name, " must be a list">>, "tags")
        ELSE compile_extras(data,
                 column_loop(1, LoopState(data.columns.v, <<>>, <<>>), data.name,
                             column_transformers),
                 column_transformers, extra_transformers)

\* -------------------------------------------------- inputs: configurations
SeqsUpTo(S, lo, hi) == UNION {[1..k -> S] : k \in lo..hi}

Col(name, type, mods) == [shape |-> "map", name |-> name, type |-> type, mods |-> mods]

EmptyCol == [shape |-> "empty", name |-> None_, type |-> None_, mods |-> NoMods]

NotMap == [shape |-> "notmap", name |-> None_, type |-> None_, mods |-> NoMods]

Absent == [shape |-> "absent", v |-> <<>>]

NotList == [shape |-> "notlist", v |-> <<>>]

Cfg(columns, extras) ==
    [name |-> "q", query |-> "select 1", columns |-> PyList(columns),
     tags |-> Absent, extras |-> PyList(extras)]

Item(key, name, type, source) ==
    [key |-> key,
     data |-> [shape |-> "map", name |-> name, type |-> type, source |-> source]]

Items(entries) == [shape |-> "map", entries |-> entries]

\* Columns and extras that are combined freely into lists.
ListCols ==
    {EmptyCol, Col("a", "source", NoMods), Col("b", "source", NoMods),
     Col("a", "tag", NoMods), Col("c", "gauge", NoMods)}

ListExtras ==
    {Col("a", None_, [NoMods EXCEPT !.expression = "a / b"]),
     Col("c", "percent", [NoMods EXCEPT !.part = "a", !.total = "b"]),
     Col("d", "percent", [NoMods EXCEPT !.part = "d", !.total = "a"]),
     Col("c", "percent", [NoMods EXCEPT !.part = "d", !.total = "a"]),
     Col("d", "gauge", [NoMods EXCEPT !.source = "a"])}

ListConfigs ==
    UNION {{Cfg(cs, es) : cs \in SeqsUpTo(ListCols, k, k),
                          es \in SeqsUpTo(ListExtras, 0, MaxEntries - k)} :
           k \in 1..MaxEntries}

\* The items mappings tried on a match column or extra.
GoodItem == Item("OK", "ok_count", "monotonic_count", "a")

ItemChoices ==
    {GoodItem,
     Item("BAD", "bad_count", "bogus", "a"),
     Item("BAD", None_, "gauge", "a"),
     Item("BAD", NonStr, "gauge", "a"),
     Item("BAD", "bad_count", None_, "a"),
     Item("BAD", "bad_count", NonStr, "a"),
     Item("BAD", "bad_count", "gauge", None_),
     Item("BAD", "bad_count", "gauge", NonStr),
     Item("BAD", "bad_count", "match", "a"),
     Item("BAD", "bad_count", "monotonic_gauge", "a"),
     Item("BAD", "bad_count", "tag", "a"),
     [key |-> "BAD",
      data |-> [shape |-> "notmap", name |-> None_, type |-> None_, source |-> None_]]}

ItemsChoices ==
    {NoItems, [shape |-> "notmap", entries |-> <<>>]}
    \cup {Items(<<it>>) : it \in ItemChoices}
    \cup {Items(<<GoodItem, it>>) : it \in ItemChoices \ {GoodItem}}

ScaleChoices ==
    {None_, "second", "fortnight", "<int:1000>", "<int:0>", "<int:-5>", "<float>"}

\* Single columns of every shape, each tried after a source column a.
ShapeCols ==
    {NotMap,
     Col(None_, "gauge", NoMods), Col("", "gauge", NoMods), Col(NonStr, "gauge", NoMods),
     Col("c", None_, NoMods), Col("c", NonStr, NoMods), Col("c", "bogus", NoMods),
     Col("c", "source", NoMods), Col("c", "tag", NoMods), Col("c", "gauge", NoMods),
     Col("c", "monotonic_gauge", NoMods)}
    \cup {Col("c", "temporal_percent", [NoMods EXCEPT !.scale = s]) : s \in ScaleChoices}
    \cup {Col("c", "match", [NoMods EXCEPT !.items = its, !.source = src]) :
            its \in ItemsChoices, src \in {None_, "a"}}

NameChoices == {None_, NonStr, "a", "e", "zz"}

\* Single extras of every shape, each tried after source columns a and b.
ShapeExtras ==
    {NotMap,
     Col(None_, "gauge", NoMods), Col("", "gauge", NoMods), Col(NonStr, "gauge", NoMods),
     Col("e", None_, NoMods), Col("e", NonStr, NoMods), Col("e", "bogus", NoMods),
     Col("e", "tag", [NoMods EXCEPT !.source = "a"])}
    \cup {Col("e", t, [NoMods EXCEPT !.expression = x, !.submit_type = st]) :
            t \in {None_, "expression"},
            x \in {None_, NonStr, "", "a +", "a / b"},
            st \in {None_, "gauge", "bogus", "tag", "monotonic_gauge"}}
    \cup {Col("e", "percent", [NoMods EXCEPT !.part = p, !.total = t]) :
            p \in NameChoices, t \in NameChoices}
    \cup {Col("e", t, [NoMods EXCEPT !.source = src, !.scale = "second"]) :
            t \in {"gauge", "monotonic_gauge", "temporal_percent"},
            src \in {None_, "", "a", "zz"}}
    \cup {Col("e", "match", [NoMods EXCEPT !.source = "a", !.items = its]) :
            its \in {NoItems, Items(<<GoodItem>>),
                     Items(<<GoodItem, Item("BAD", "bad_count", "bogus", "a")>>),
                     Items(<<Item("X", "x_count", "gauge", None_)>>)}}

ShapeConfigs ==
    {Cfg(<<Col("a", "source", NoMods), c>>, <<>>) : c \in ShapeCols}
    \cup {Cfg(<<Col("a", "source", NoMods), Col("b", "source", NoMods)>>, <<e>>) :
            e \in ShapeExtras}

\* Configurations whose top-level fields are missing or of the wrong type.
GoodCfg == Cfg(<<Col("a", "source", NoMods), Col("b", "tag", NoMods)>>, <<>>)

FieldConfigs ==
    {[GoodCfg EXCEPT !.name = n] : n \in {None_, "", NonStr}}
    \cup {[GoodCfg EXCEPT !.query = n] : n \in {None_, "", NonStr}}
    \cup {[GoodCfg EXCEPT !.columns = c] : c \in {Absent, NotList, PyList(<<>>)}}
    \cup {[GoodCfg EXCEPT !.tags = t] :
            t \in {PyNone, NotList, PyList(<<>>), PyList(<<"env:prod">>)}}
    \cup {[GoodCfg EXCEPT !.extras = e] : e \in {Absent, NotList}}
    \cup {[name |-> None_, query |-> None_, columns |-> Absent, tags |-> Absent,
           extras |-> Absent]}

\* ------------------------------------------------------ inputs: registries
\* The submission factories a caller adds to the stock column registry.
Submission == [gauge |-> "submit", rate |-> "submit", monotonic_count |-> "submit"]

FullRegistry == COLUMN_TRANSFORMERS @@ Submission

\* The registry pairs compile is called with: the stock registries with the
\* caller's submission factories; without them; with a factory registered
\* under 'source'; without the stock column factories; with submission
\* factories that raise; without the expression factory.
Registries ==
    {<<FullRegistry, EXTRA_TRANSFORMERS>>,
     <<COLUMN_TRANSFORMERS, EXTRA_TRANSFORMERS>>,
     <<FullRegistry @@ [source |-> "submit"], EXTRA_TRANSFORMERS>>,
     <<Submission, EXTRA_TRANSFORMERS>>,
     <<COLUMN_TRANSFORMERS @@ [gauge |-> "raises", rate |-> "submit",
                               monotonic_count |-> "raises"], EXTRA_TRANSFORMERS>>,
     <<FullRegistry, [percent |-> "get_percent"]>>}

\* ------------------------------------------------------- spec.py: values
\* A key that is not in a mapping.
Missing == "<absent>"

True_ == "<True>"

False_ == "<False>"

\* A list where a scalar is expected: not a str, and not hashable.
AList == "<list>"

\* A mapping.
ADict == "<dict>"

\* The numbers a specification carries, by their value (True is 1, False 0).
Numbers ==
    [v \in {"<int:1>", "<int:5>", "<float:3.0>", True_, False_} |->
        CASE v = "<int:1>" -> 1
          [] v = "<int:5>" -> 5
          [] v = "<float:3.0>" -> 3
          [] v = True_ -> 1
          [] v = False_ -> 0]

\* isinstance(v, bool)
IsBool(v) == v \in {True_, False_}

\* isinstance(v, (int, float)): a bool is an int
IsNumber(v) == v \in DOMAIN Numbers

\* isinstance(v, int)
IsInt(v) == IsNumber(v) /\ v # "<float:3.0>"

\* isinstance(v, str)
IsString(v) == v \notin {Missing, None_, AList, ADict} /\ ~IsNumber(v)

\* hash(v) succeeds
Hashable(v) == v \notin {AList, ADict}

\* One entry of loader.errors.  The message texts carry the source and a
\* location built from the file ("#1" for file #1, or its name), the
\* enclosing sections and the option ("#1" for option #1, or its name).
Err(ctx, option, msg) ==
    [file |-> ctx.file, sections |-> ctx.sections, option |-> option, msg |-> msg]

\* '#{}'.format(index)
Nth(index) == "#" \o ToString(index)

\* Where a validator is working: the file and the enclosing sections.
Ctx(file, sections) == [file |-> file, sections |-> sections]

\* default_option_example(option_name) of utils.
default_option_example(option_name) == "<EXAMPLE>"

\* A value mapping, or an entry of a properties list (py tells what the
\* entry is: a mapping, or the scalar that stands in its place).  item holds
\* the items mapping and props the properties entries when they are such.
NoValue ==
    [py |-> ADict, name |-> Missing, type |-> Missing, example |-> Missing,
     pattern |-> Missing, minimum |-> Missing, maximum |-> Missing,
     uniqueItems |-> Missing, minItems |-> Missing, maxItems |-> Missing,
     items |-> Missing, item |-> <<>>, required |-> Missing, req |-> <<>>,
     properties |-> Missing, props |-> <<>>]

\* What a validator hands back: the object as it left it, the errors
\* appended so far, and the exception that ended it, if any.
Validated(obj, errors, exc) == [obj |-> obj, errors |-> errors, exc |-> exc]

\* errors with one more entry when the condition holds.
ErrorIf(cond, errors, e) == IF cond THEN Append(errors, e) ELSE errors

\* The distinct elements of a sequence of hashable values: set(seq).
SetOf(seq) == {seq[k] : k \in 1..Len(seq)}

\* value_validator, type string (line 354-370).
string_value(value, ctx, option_name, depth, errors) ==
    LET E(msg) == Err(ctx, option_name, msg)
        v1 == IF value.example = Missing /\ depth = 0
              THEN [value EXCEPT !.example = default_option_example(option_name)]
              ELSE value
        e1 == ErrorIf(value.example # Missing /\ ~IsString(value.example), errors,
                      E("Attribute example for type string must be a string"))
        e2 == ErrorIf(value.pattern # Missing /\ ~IsString(value.pattern), e1,
                      E("Attribute pattern for type string must be a string"))
    IN Validated(v1, e2, NoExc)

\* value_validator, types integer and number (line 371-412).
number_value(value, ctx, option_name, depth, errors) ==
    LET E(msg) == Err(ctx, option_name, msg)
        v1 == IF value.example = Missing /\ depth = 0
              THEN [value EXCEPT !.example = default_option_example(option_name)]
              ELSE value
        e1 == ErrorIf(value.example # Missing /\ ~IsNumber(value.example), errors,
                      E("Attribute example must be a number"))
        minimum_valid == ~(value.minimum # Missing /\ ~IsNumber(value.minimum))
        maximum_valid == ~(value.maximum # Missing /\ ~IsNumber(value.maximum))
        e2 == ErrorIf(~minimum_valid, e1, E("Attribute minimum must be a number"))
        e3 == ErrorIf(~maximum_valid, e2, E("Attribute maximum must be a number"))
        e4 == ErrorIf(/\ value.minimum # Missing
                      /\ value.maximum # Missing
                      /\ minimum_valid
                      /\ maximum_valid
                      /\ Numbers[value.maximum] <= Numbers[value.minimum],
                      e3, E("Attribute maximum must be greater than attribute minimum"))
    IN Validated(v1, e4, NoExc)

\* value_validator, type boolean (line 413-426).
boolean_value(value, ctx, option_name, depth, errors) ==
    LET E(msg) == Err(ctx, option_name, msg)
        e1 == ErrorIf(value.example = Missing /\ depth = 0, errors,
                      E("Every boolean must contain a default example attribute"))
        e2 == ErrorIf(value.example # Missing /\ ~IsBool(value.example), e1,
                      E("Attribute example must be true or false"))
    IN Validated(value, e2, NoExc)

RECURSIVE value_validator(_, _, _, _, _)
RECURSIVE properties_loop(_, _, _, _, _)

\* The array once its items mapping went through value_validator.
WithItem(value, inner) ==
    Validated([value EXCEPT !.item = <<inner.obj>>], inner.errors, inner.exc)

\* value_validator, type array (line 427-494).
array_value(value, ctx, option_name, depth, errors) ==
    LET E(msg) == Err(ctx, option_name, msg)
        v1 == IF value.example = Missing /\ depth = 0
              THEN [value EXCEPT !.example = AList]
              ELSE value
        e1 == ErrorIf(value.example # Missing /\ value.example # AList, errors,
                      E("Attribute example for type array must be an array"))
        e2 == ErrorIf(value.uniqueItems # Missing /\ ~IsBool(value.uniqueItems), e1,
                      E("Attribute uniqueItems must be true or false"))
        min_items_valid == ~(value.minItems # Missing /\ ~IsInt(value.minItems))
        max_items_valid == ~(value.maxItems # Missing /\ ~IsInt(value.maxItems))
        e3 == ErrorIf(~min_items_valid, e2, E("Attribute minItems must be an integer"))
        e4 == ErrorIf(~max_items_valid, e3, E("Attribute maxItems must be an integer"))
        e5 == ErrorIf(/\ value.minItems # Missing
                      /\ value.maxItems # Missing
                      /\ min_items_valid
                      /\ max_items_valid
                      /\ Numbers[value.maxItems] <= Numbers[value.minItems],
                      e4, E("Attribute maxItems must be greater than attribute minItems"))
    IN IF value.items = Missing
       THEN Validated(v1, Append(e5, E("Every array must contain an items attribute")),
                      NoExc)
       ELSE IF value.items # ADict
       THEN Validated(v1, Append(e5, E("Attribute items must be a mapping object")),
                      NoExc)
       ELSE WithItem(v1, value_validator(value.item[1], ctx, option_name, depth + 1, e5))

\* 'name' not in prop, then prop['name'], for an entry that is not a mapping
\* (line 547, 555): what the two operations do on the entry's own type.
NameLookup(prop) ==
    CASE prop.py = ADict -> IF prop.name = Missing THEN "absent" ELSE "found"
      [] prop.py = None_ \/ IsNumber(prop.py) -> "not iterable"
      [] prop.py = AList -> "absent"
      [] prop.py = "name" -> "not subscriptable by str"
      [] OTHER -> "absent"

\* The state of the loop over the properties of an object: the entries, the
\* names collected (property_names), the errors and the exception, if any.
Properties(props, names, errors, exc) ==
    [props |-> props, names |-> names, errors |-> errors, exc |-> exc]

\* A property once it went through value_validator (line 564-566).
WithProperty(st, k, inner) ==
    Properties([st.props EXCEPT ![k] = inner.obj], Append(st.names, st.props[k].name),
               inner.errors, inner.exc)

\* One iteration of the loop over the properties (line 539-566).
property_step(k, st, ctx, option_name, new_depth) ==
    LET E(msg) == Err(ctx, option_name, msg)
        prop == st.props[k]
        e1 == ErrorIf(prop.py # ADict, st.errors,
                      E("Every entry in properties must be a mapping object"))
        found == NameLookup(prop)
    IN IF found = "not iterable"
       THEN Properties(st.props, st.names, e1,
                       Exc("TypeError", <<"argument is not iterable">>))
       ELSE IF found = "not subscriptable by str"
       THEN Properties(st.props, st.names, e1,
                       Exc("TypeError", <<"indices must be integers">>))
       ELSE IF found = "absent"
       THEN Properties(st.props, st.names,
                Append(e1, E("Every entry in properties must contain a name attribute")),
                NoExc)
       ELSE IF ~IsString(prop.name)
       THEN Properties(st.props, st.names,
                Append(e1, E("Attribute name of a property must be a string")), NoExc)
       ELSE WithProperty(st, k, value_validator(prop, ctx, option_name, new_depth, e1))

\* for prop in properties (line 539).
properties_loop(k, st, ctx, option_name, new_depth) ==
    IF st.exc.raised \/ k > Len(st.props) THEN st
    ELSE properties_loop(k + 1, property_step(k, st, ctx, option_name, new_depth),
                         ctx, option_name, new_depth)

\* len(seq) - len(set(seq)) is not zero.
HasDuplicates(seq) == Len(seq) # Cardinality(SetOf(seq))

\* The checks after the loop over the properties (line 568-581).
AfterProperties(value, required, ctx, option_name, loop) ==
    LET E(msg) == Err(ctx, option_name, msg)
        v3 == [value EXCEPT !.props = loop.props]
        e3 == ErrorIf(HasDuplicates(loop.names), loop.errors,
                E("All entries in attribute properties must have unique names"))
        e4 == ErrorIf(required # <<>> /\ SetOf(required) \ SetOf(loop.names) # {},
                e3,
                E("All entries in attribute required must be defined in properties"))
    IN IF loop.exc.raised
       THEN Validated(v3, loop.errors, loop.exc)
       ELSE Validated(v3, e4, NoExc)

\* value_validator, type object (line 495-581).
object_value(value, ctx, option_name, depth, errors) ==
    LET E(msg) == Err(ctx, option_name, msg)
        v1 == IF value.example = Missing /\ depth = 0
              THEN [value EXCEPT !.example = ADict]
              ELSE value
        e1 == ErrorIf(value.example # Missing /\ value.example # ADict, errors,
                      E("Attribute example for type object must be a mapping object"))
        isList == value.required = AList
        unhashable == isList /\ value.req # <<>>
                      /\ \E k \in 1..Len(value.req) : ~Hashable(value.req[k])
        e2 == IF value.required = Missing THEN e1
              ELSE IF ~isList
              THEN Append(e1, E("Attribute required must be an array"))
              ELSE IF value.req = <<>>
              THEN Append(e1, E("Remove attribute required if no properties are required"))
              ELSE IF unhashable THEN e1
              ELSE ErrorIf(HasDuplicates(value.req), e1,
                           E("All entries in attribute required must be unique"))
        required == IF isList THEN value.req ELSE <<>>
        v2 == IF v1.properties = Missing
              THEN [v1 EXCEPT !.properties = AList, !.props = <<>>]
              ELSE v1
    IN IF unhashable
       THEN Validated(v1, e2, Exc("TypeError", <<"unhashable type">>))
       ELSE IF v2.properties # AList
       THEN Validated(v2, Append(e2, E("Attribute properties must be an array")), NoExc)
       ELSE AfterProperties(v2, required, ctx, option_name,
                properties_loop(1, Properties(v2.props, <<>>, e2, NoExc), ctx,
                                option_name, depth + 1))

\* value_validator (line 336-587).
value_validator(value, ctx, option_name, depth, errors) ==
    LET E(msg) == Err(ctx, option_name, msg)
    IN IF value.type = Missing
       THEN Validated(value, Append(errors, E("Every value must contain a type attribute")),
                      NoExc)
       ELSE IF ~IsString(value.type)
       THEN Validated(value, Append(errors, E("Attribute type must be a string")), NoExc)
       ELSE IF value.type = "string"
       THEN string_value(value, ctx, option_name, depth, errors)
       ELSE IF value.type \in {"integer", "number"}
       THEN number_value(value, ctx, option_name, depth, errors)
       ELSE IF value.type = "boolean"
       THEN boolean_value(value, ctx, option_name, depth, errors)
       ELSE IF value.type = "array"
       THEN array_value(value, ctx, option_name, depth, errors)
       ELSE IF value.type = "object"
       THEN object_value(value, ctx, option_name, depth, errors)
       ELSE Validated(value, Append(errors, E("Unknown type")), NoExc)

\* ------------------------------------------------------ spec.py: options
\* An entry of an options list (py tells what the entry is: a mapping, or the
\* scalar that stands in its place).  id is the identity of the object.
\* infos holds the values of the deprecation mapping, mtags the entries of
\* metadata_tags, val the value mapping and opts the nested options, when
\* the attribute is of that kind.
NoOption ==
    [id |-> 0, py |-> ADict, template |-> Missing, overrides |-> Missing,
     name |-> Missing, description |-> Missing, required |-> Missing,
     hidden |-> Missing, deprecation |-> Missing, infos |-> <<>>,
     metadata_tags |-> Missing, mtags |-> <<>>, value |-> Missing, val |-> <<>>,
     options |-> Missing, opts |-> <<>>, secret |-> Missing, multiple |-> Missing]

\* What loader.templates.load returns or raises for a template: a mapping
\* (items holds it), a list (items holds its entries) or something else.
Loaded(py, items) == [py |-> py, items |-> items]

\* Every load returns new objects: the entry at position k of what is loaded
\* for the option at option_index has identity 10 * option_index + k.
Fresh(loaded, option_index) ==
    [loaded EXCEPT !.items = [k \in 1..Len(loaded.items) |->
                                 [loaded.items[k] EXCEPT !.id = 10 * option_index + k]]]

\* {parameter: option.pop(parameter) for parameter in loader.templates.fields
\* if parameter in option} and option.pop('template') (line 144-149): what
\* is left of the option.
PopTemplate(option) == [option EXCEPT !.template = Missing, !.overrides = Missing]

\* template.update(option) (line 157): the template mapping with every key
\* of the option written over it.
Update(template, option) ==
    LET Has(key) == option[key] # Missing
    IN [id |-> template.id, py |-> template.py,
        template |-> IF Has("template") THEN option.template ELSE template.template,
        overrides |-> IF Has("overrides") THEN option.overrides ELSE template.overrides,
        name |-> IF Has("name") THEN option.name ELSE template.name,
        description |-> IF Has("description") THEN option.description
                        ELSE template.description,
        required |-> IF Has("required") THEN option.required ELSE template.required,
        hidden |-> IF Has("hidden") THEN option.hidden ELSE template.hidden,
        deprecation |-> IF Has("deprecation") THEN option.deprecation
                        ELSE template.deprecation,
        infos |-> IF Has("deprecation") THEN option.infos ELSE template.infos,
        metadata_tags |-> IF Has("metadata_tags") THEN option.metadata_tags
                          ELSE template.metadata_tags,
        mtags |-> IF Has("metadata_tags") THEN option.mtags ELSE template.mtags,
        value |-> IF Has("value") THEN option.value ELSE template.value,
        val |-> IF Has("value") THEN option.val ELSE template.val,
        options |-> IF Has("options") THEN option.options ELSE template.options,
        opts |-> IF Has("options") THEN option.opts ELSE template.opts,
        secret |-> IF Has("secret") THEN option.secret ELSE template.secret,
        multiple |-> IF Has("multiple") THEN option.multiple ELSE template.multiple]

\* list.insert(index, item), index counted from 0: past the end it appends.
Insert(list, index, item) ==
    IF index >= Len(list) THEN Append(list, item)
    ELSE SubSeq(list, 1, index) \o <<item>> \o SubSeq(list, index + 1, Len(list))

\* list.pop(index), index counted from 0: the list without that entry.
ListPop(list, index) == SubSeq(list, 1, index) \o SubSeq(list, index + 2, Len(list))

\* The template items inserted before the templated option, not after it.
InsertIndexBefore(option_index, item_index) == option_index - 1

\* Where template item number item_index goes (line 164).
InsertIndex(option_index, item_index) == option_index + item_index

RECURSIVE InsertAll(_, _, _, _)
\* for item_index, template_item in enumerate(template): options.insert(...)
\* (line 163-164), from item number item_index on.
InsertAll(options, option_index, template, item_index) ==
    IF item_index >= Len(template) THEN options
    ELSE InsertAll(Insert(options, InsertIndex(option_index, item_index),
                          template[item_index + 1]),
                   option_index, template, item_index + 1)

\* The list branch of the template handling (line 161-167): the items
\* inserted, then what is at the current index deleted.
Expanded(options, option_index, template) ==
    ListPop(InsertAll(options, option_index, template, 0), option_index - 1)

\* What the template handling of one iteration yields (line 143-190): the
\* options list as it leaves it, the errors, and whether the iteration goes
\* on with the option now at the current index (otherwise it continues with
\* the next one).
Handled(options, errors, goes_on) ==
    [options |-> options, errors |-> errors, goes_on |-> goes_on]

template_step(options, option_index, loaded, ctx, errors) ==
    LET E(msg) == Err(ctx, Nth(option_index), msg)
        option == PopTemplate(options[option_index])
        popped == [options EXCEPT ![option_index] = option]
    IN IF loaded.py = "raise"
       THEN Handled(popped, Append(errors, E("the message of the exception")), FALSE)
       ELSE IF loaded.py = ADict
       THEN Handled([options EXCEPT ![option_index] = Update(loaded.items[1], option)],
                    errors, TRUE)
       ELSE IF loaded.py = AList
       THEN IF loaded.items # <<>>
            THEN IF loaded.items[1].py # ADict
                 THEN Handled(Expanded(popped, option_index, loaded.items),
                              Append(errors, E("Template option must be a mapping object")),
                              FALSE)
                 ELSE Handled(Expanded(popped, option_index, loaded.items), errors, TRUE)
            ELSE Handled(popped, Append(errors, E("Template refers to an empty array")),
                         FALSE)
       ELSE Handled(popped,
                Append(errors, E("Template does not refer to a mapping object nor array")),
                FALSE)

\* One error for every entry of a list that is not a str.
RECURSIVE NonStringErrors(_, _, _, _)
NonStringErrors(entries, k, errors, e) ==
    IF k > Len(entries) THEN errors
    ELSE NonStringErrors(entries, k + 1, ErrorIf(~IsString(entries[k]), errors, e), e)

\* option.setdefault(key, default) for a scalar default.
SetDefault(option, key, default) ==
    IF option[key] = Missing THEN [option EXCEPT ![key] = default] ELSE option

\* The attribute checks of one option between its name and its value
\* (line 222-284), for an option that has a description: the defaults they
\* set and the errors they append.
attribute_defaults(option) ==
    LET o1 == SetDefault(SetDefault(option, "required", False_), "hidden", False_)
        o2 == IF o1.deprecation = Missing
              THEN [o1 EXCEPT !.deprecation = ADict, !.infos = <<>>] ELSE o1
    IN IF o2.metadata_tags = Missing
       THEN [o2 EXCEPT !.metadata_tags = AList, !.mtags = <<>>] ELSE o2

attribute_errors(option, ctx, errors) ==
    LET E(msg) == Err(ctx, option.name, msg)
        e1 == ErrorIf(~IsString(option.description), errors,
                      E("Attribute description must be a string"))
        e2 == ErrorIf(~IsBool(option.required), e1,
                      E("Attribute required must be true or false"))
        e3 == ErrorIf(~IsBool(option.hidden), e2,
                      E("Attribute hidden must be true or false"))
        e4 == IF option.deprecation # ADict
              THEN Append(e3, E("Attribute deprecation must be a mapping object"))
              ELSE NonStringErrors(option.infos, 1, e3,
                       E("Key for attribute deprecation must be a string"))
    IN IF option.metadata_tags # AList
       THEN Append(e4, E("Attribute metadata_tags must be an array"))
       ELSE NonStringErrors(option.mtags, 1, e4,
                E("Attribute metadata_tags must only contain strings"))

\* The state of the loop of options_validator: the list, the names seen so
\* far (option_names_origin), the errors, the exception, if any, and the
\* objects the loop has taken up, one per iteration.
Stepped(options, origin, errors, exc, visited) ==
    [options |-> options, origin |-> origin, errors |-> errors, exc |-> exc,
     visited |-> visited]

RECURSIVE options_validator(_, _, _, _)

\* The option once its value went through value_validator (line 312).
WithVal(st, option_index, origin, option, inner) ==
    Stepped([st.options EXCEPT ![option_index] = [option EXCEPT !.val = <<inner.obj>>]],
            origin, inner.errors, inner.exc, st.visited)

\* The option once its nested options went through options_validator (line 333).
WithOpts(st, option_index, origin, option, inner) ==
    Stepped([st.options EXCEPT ![option_index] = [option EXCEPT !.opts = inner.obj]],
            origin, inner.errors, inner.exc, st.visited)

\* The rest of an iteration once the option has a name (line 200-333);
\* st.options[option_index] is the option.
named_option(st, option_index, ctx, templates) ==
    LET option == st.options[option_index]
        option_name == option.name
        AtIndex(msg) == Err(ctx, Nth(option_index), msg)
        E(msg) == Err(ctx, option_name, msg)
        e1 == ErrorIf(~IsString(option_name), st.errors,
                      AtIndex("Attribute name must be a string"))
        e2 == ErrorIf(Hashable(option_name) /\ option_name \in DOMAIN st.origin, e1,
                      AtIndex("Option name already used"))
        origin2 == IF Hashable(option_name) /\ option_name \notin DOMAIN st.origin
                   THEN (option_name :> option_index) @@ st.origin
                   ELSE st.origin
        o1 == attribute_defaults(option)
        e3 == attribute_errors(o1, ctx, e2)
        With(o) == [st.options EXCEPT ![option_index] = o]
        o2 == SetDefault(o1, "secret", False_)
        o3 == SetDefault(o1, "multiple", False_)
    IN IF ~Hashable(option_name)
       THEN Stepped(st.options, st.origin, e1, Exc("TypeError", <<"unhashable type">>),
                    st.visited)
       ELSE IF option.description = Missing
       THEN Stepped(st.options, origin2,
                    Append(e2, E("Every option must contain a description attribute")),
                    NoExc, st.visited)
       ELSE IF o1.value # Missing /\ o1.options # Missing
       THEN Stepped(With(o1), origin2,
                Append(e3, E("An option cannot contain both value and options attributes")),
                NoExc, st.visited)
       ELSE IF o1.value # Missing
       THEN IF o1.value # ADict
            THEN Stepped(With(o1), origin2,
                         Append(e3, E("Attribute value must be a mapping object")), NoExc,
                         st.visited)
            ELSE WithVal(st, option_index, origin2, o2,
                     value_validator(o2.val[1], ctx, option_name, 0,
                         ErrorIf(~IsBool(o2.secret), e3,
                                 E("Attribute secret must be true or false"))))
       ELSE IF o1.options # Missing
       THEN IF o1.options # AList
            THEN Stepped(With(o1), origin2,
                         Append(e3, E("The options attribute must be an array")), NoExc,
                         st.visited)
            ELSE WithOpts(st, option_index, origin2, o3,
                     options_validator(o3.opts,
                         Ctx(ctx.file, Append(ctx.sections, option_name)), templates,
                         ErrorIf(~IsBool(o3.multiple), e3,
                                 E("Attribute multiple must be true or false"))))
       ELSE Stepped(With(o1), origin2, e3, NoExc, st.visited)

\* The iteration after the template handling (line 192-333).
after_template(st, option_index, ctx, templates, handled) ==
    IF ~handled.goes_on
    THEN Stepped(handled.options, st.origin, handled.errors, NoExc, st.visited)
    ELSE IF handled.options[option_index].name = Missing
    THEN Stepped(handled.options, st.origin,
                 Append(handled.errors,
                        Err(ctx, Nth(option_index),
                            "Every option must contain a name attribute")),
                 NoExc, st.visited)
    ELSE named_option(Stepped(handled.options, st.origin, handled.errors, NoExc,
                              st.visited),
                      option_index, ctx, templates)

\* One iteration of the loop of options_validator (line 134-333).
option_step(st, option_index, ctx, templates) ==
    LET option == st.options[option_index]
    IN IF option.py # ADict
       THEN Stepped(st.options, st.origin,
                    Append(st.errors,
                           Err(ctx, Nth(option_index),
                               "Option attribute must be a mapping object")),
                    NoExc, st.visited)
       ELSE IF option.template # Missing
       THEN after_template(st, option_index, ctx, templates,
                template_step(st.options, option_index,
                              Fresh(templates[option.template], option_index), ctx,
                              st.errors))
       ELSE after_template(st, option_index, ctx, templates,
                           Handled(st.options, st.errors, TRUE))

\* The object an iteration took up: the entry it found at its index or,
\* after a template was expanded, the entry it went on with.
Visit(st, option_index) ==
    [st EXCEPT !.visited = Append(@, st.options[option_index].id)]

RECURSIVE options_loop(_, _, _, _)
\* for option_index, option in enumerate(options, 1) (line 134): the list
\* iterator reads position option_index - 1 of the list as it is then, and
\* stops when that position is past the end.
options_loop(st, option_index, ctx, templates) ==
    IF st.exc.raised \/ option_index > Len(st.options) THEN st
    ELSE options_loop(Visit(option_step(st, option_index, ctx, templates), option_index),
                      option_index + 1, ctx, templates)

\* ', '.join(sections) (line 129) raises for a section that is not a str.
Joinable(sections) == \A k \in 1..Len(sections) : IsString(sections[k])

\* What options_validator hands back: the list as it left it, the errors,
\* the exception, if any, and the objects its loop took up.
OptionsValidated(st) ==
    [obj |-> st.options, errors |-> st.errors, exc |-> st.exc, visited |-> st.visited]

\* options_validator (line 128-333).
options_validator(options, ctx, templates, errors) ==
    IF ~Joinable(ctx.sections)
    THEN OptionsValidated(Stepped(options, <<>>, errors,
                                  Exc("TypeError", <<"expected str instance">>), <<>>))
    ELSE OptionsValidated(options_loop(Stepped(options, <<>>, errors, NoExc, <<>>), 1,
                                       ctx, templates))

\* -------------------------------------------------- spec.py: files and spec
\* An entry of the files list.  opts holds the options when they are a list.
NoFile ==
    [py |-> ADict, name |-> Missing, example_name |-> Missing, options |-> Missing,
     opts |-> <<>>]

\* A specification.  fs holds the files when they are a list.
NoSpec == [py |-> ADict, name |-> Missing, version |-> Missing, files |-> Missing, fs |-> <<>>]

\* normalize_source_name(source_name) of utils, on the sources used here.
normalize_source_name(source_name) ==
    CASE source_name = "Active MQ" -> "active_mq"
      [] OTHER -> source_name

\* loader.source or 'conf'
SourceOrConf(source) == IF Falsy(source) THEN "conf" ELSE source

\* The state of the loop of files_validator: the list, the file names and the
\* example names seen so far, the errors and the exception, if any.
FileStepped(files, names, examples, errors, exc) ==
    [files |-> files, names |-> names, examples |-> examples, errors |-> errors,
     exc |-> exc]

\* The example name an entry ends up with (line 79-98).
ExampleName(config_file) ==
    IF config_file.example_name # Missing THEN config_file.example_name
    ELSE IF config_file.name = "auto_conf.yaml" THEN config_file.name
    ELSE "conf.yaml.example"

\* The errors about the file name and the example name (line 70-103).
file_name_errors(config_file, file_index, num_files, names, source, errors) ==
    LET E(msg) == Err(Ctx(Nth(file_index), <<>>), None_, msg)
        file_name == config_file.name
        e1 == ErrorIf(file_name \in DOMAIN names, errors, E("File name already used"))
        e2 == IF file_name = "auto_conf.yaml"
              THEN ErrorIf(/\ config_file.example_name # Missing
                           /\ config_file.example_name # file_name,
                           e1, E("Example file name should be the file name"))
              ELSE ErrorIf(/\ num_files = 1
                           /\ file_name #
                                normalize_source_name(SourceOrConf(source)) \o ".yaml",
                           e1, E("File name should be the normalized source name"))
    IN ErrorIf(~IsString(ExampleName(config_file)), e2,
               E("Attribute example_name must be a string"))

\* The file once its options went through options_validator (line 125).
WithOptions(st, file_index, names, examples, config_file, inner) ==
    FileStepped([st.files EXCEPT ![file_index] = [config_file EXCEPT !.opts = inner.obj]],
                names, examples, inner.errors, inner.exc)

\* One iteration of the loop of files_validator (line 51-125).
file_step(st, file_index, source, templates) ==
    LET config_file == st.files[file_index]
        E(msg) == Err(Ctx(Nth(file_index), <<>>), None_, msg)
        file_name == config_file.name
        Named(msg) == Err(Ctx(file_name, <<>>), None_, msg)
        names2 == IF file_name \in DOMAIN st.names THEN st.names
                  ELSE (file_name :> file_index) @@ st.names
        example_file_name == ExampleName(config_file)
        f1 == [config_file EXCEPT !.example_name = example_file_name]
        e1 == file_name_errors(config_file, file_index, Len(st.files), st.names,
                               source, st.errors)
        e2 == ErrorIf(example_file_name \in DOMAIN st.examples, e1,
                      E("Example file name already used"))
        examples2 == IF example_file_name \in DOMAIN st.examples THEN st.examples
                     ELSE (example_file_name :> file_index) @@ st.examples
        With(f) == [st.files EXCEPT ![file_index] = f]
    IN IF config_file.py # ADict
       THEN FileStepped(st.files, st.names, st.examples,
                        Append(st.errors, E("File attribute must be a mapping object")),
                        NoExc)
       ELSE IF file_name = Missing
       THEN FileStepped(st.files, st.names, st.examples,
                        Append(st.errors, E("Every file must contain a name attribute")),
                        NoExc)
       ELSE IF ~IsString(file_name)
       THEN FileStepped(st.files, st.names, st.examples,
                        Append(st.errors, E("Attribute name must be a string")), NoExc)
       ELSE IF ~Hashable(example_file_name)
       THEN FileStepped(With(f1), names2, st.examples, e1,
                        Exc("TypeError", <<"unhashable type">>))
       ELSE IF config_file.options = Missing
       THEN FileStepped(With(f1), names2, examples2,
                        Append(e2, Named("Every file must contain an options attribute")),
                        NoExc)
       ELSE IF config_file.options # AList
       THEN FileStepped(With(f1), names2, examples2,
                        Append(e2, Named("The options attribute must be an array")),
                        NoExc)
       ELSE WithOptions(st, file_index, names2, examples2, f1,
                options_validator(f1.opts, Ctx(file_name, <<>>), templates, e2))

RECURSIVE files_loop(_, _, _, _)
\* for file_index, config_file in enumerate(files, 1) (line 51).
files_loop(st, file_index, source, templates) ==
    IF st.exc.raised \/ file_index > Len(st.files) THEN st
    ELSE files_loop(file_step(st, file_index, source, templates), file_index + 1,
                    source, templates)

\* What files_validator hands back.
FilesValidated(st) == Validated(st.files, st.errors, st.exc)

\* files_validator (line 47-125).
files_validator(files, source, templates, errors) ==
    FilesValidated(files_loop(FileStepped(files, <<>>, <<>>, errors, NoExc), 1, source,
                              templates))

\* The loader handed to the validators: its source, its version, the
\* templates it can load and the errors collected so far.
Loader(source, version, templates) ==
    [source |-> source, version |-> version, templates |-> templates,
     errors |-> <<>>]

\* The specification once its files went through files_validator (line 44).
WithFiles(spec, inner) ==
    Validated([spec EXCEPT !.fs = inner.obj], inner.errors, inner.exc)

\* spec_validator (line 7-44).
spec_validator(spec, loader_) ==
    LET E(msg) == Err(Ctx(None_, <<>>), None_, msg)
        Stop(obj, msg) == Validated(obj, Append(loader_.errors, E(msg)), NoExc)
        release_version == IF spec.version = Missing THEN loader_.version
                           ELSE spec.version
        s1 == [spec EXCEPT !.version = release_version]
    IN IF spec.py # ADict
       THEN Stop(spec, "Configuration specifications must be a mapping object")
       ELSE IF spec.name = Missing
       THEN Stop(spec, "Configuration specifications must contain a top-level name attribute")
       ELSE IF ~IsString(spec.name)
       THEN Stop(spec, "The top-level name attribute must be a string")
       ELSE IF Falsy(release_version) \/ release_version = False_
       THEN Stop(s1, "Configuration specifications must contain a top-level version attribute")
       ELSE IF ~IsString(release_version)
       THEN Stop(s1, "The top-level version attribute must be a string")
       ELSE IF spec.files = Missing
       THEN Stop(s1, "Configuration specifications must contain a top-level files attribute")
       ELSE IF spec.files # AList
       THEN Stop(s1, "The top-level files attribute must be an array")
       ELSE WithFiles(s1, files_validator(s1.fs, loader_.source, loader_.templates,
                                          loader_.errors))

\* ------------------------------------------------ inputs: specifications
MaxOptions == 3

MaxFiles == 2

StringValue == [NoValue EXCEPT !.type = "string"]

\* A well-formed option with a string value.
Opt(n) ==
    [NoOption EXCEPT !.name = n, !.description = "d", !.value = ADict,
                     !.val = <<StringValue>>]

\* A well-formed property of an object value.
Prop(n) == [NoValue EXCEPT !.name = n, !.type = "string"]

\* An entry of a properties list that is not a mapping.
Entry(py) == [NoValue EXCEPT !.py = py]

WithValue(n, v) == [Opt(n) EXCEPT !.val = <<v>>]

\* What the templates of the loader load to.
Templates ==
    [t \in {"list3", "list1", "dict", "empty", "scalar", "missing", "mixed"} |->
        CASE t = "list3" -> Loaded(AList, <<Opt("t0"), Opt("t1"), Opt("t2")>>)
          [] t = "list1" -> Loaded(AList, <<Opt("u0")>>)
          [] t = "dict" -> Loaded(ADict, <<Opt("d0")>>)
          [] t = "empty" -> Loaded(AList, <<>>)
          [] t = "scalar" -> Loaded("<int:5>", <<>>)
          [] t = "missing" -> Loaded("raise", <<>>)
          [] t = "mixed" ->
                Loaded(AList, <<[NoOption EXCEPT !.py = "<int:5>"], Opt("m1")>>)]

Templated(t) == [NoOption EXCEPT !.template = t]

\* The entries the lists handed to options_validator are made of.
OptionPool ==
    {Opt("a"), Opt("t1"),
     Templated("list3"), Templated("list1"), Templated("empty"), Templated("mixed"),
     [Templated("dict") EXCEPT !.description = "mine", !.overrides = ADict],
     [Opt("a") EXCEPT !.name = AList]}

\* A list of distinct objects: the entry at position k has identity k.
Distinct(list) == [k \in 1..Len(list) |-> [list[k] EXCEPT !.id = k]]

OptionLists == {Distinct(list) : list \in SeqsUpTo(OptionPool, 0, MaxOptions)}

\* Options that exercise the attribute and value checks.
ValueOptions ==
    <<WithValue("n", [NoValue EXCEPT !.type = "integer", !.minimum = "<int:5>",
                                     !.maximum = "<int:1>", !.example = "x"]),
      WithValue("b", [NoValue EXCEPT !.type = "boolean"]),
      WithValue("arr", [NoValue EXCEPT !.type = "array", !.items = ADict,
                                       !.item = <<[NoValue EXCEPT !.type = "number"]>>,
                                       !.minItems = "<float:3.0>"]),
      WithValue("o", [NoValue EXCEPT !.type = "object", !.required = AList,
                                     !.req = <<"p", "q">>, !.properties = AList,
                                     !.props = <<Prop("p"), Prop("p"), Entry("abc")>>]),
      WithValue("u", [NoValue EXCEPT !.type = "mystery"]),
      WithValue("v", [NoValue EXCEPT !.type = "<int:5>"]),
      [Opt("w") EXCEPT !.required = "yes", !.deprecation = ADict,
                       !.infos = <<"<int:1>">>, !.metadata_tags = "tag",
                       !.secret = "no", !.description = "<int:5>"],
      [Opt("x") EXCEPT !.options = AList],
      [Opt("y") EXCEPT !.value = "<int:5>", !.val = <<>>],
      [NoOption EXCEPT !.name = "z"]>>

\* Options one of whose checks meets a value it cannot handle.
RaisingOptions ==
    {WithValue("o", [NoValue EXCEPT !.type = "object", !.properties = AList,
                                    !.props = <<Prop("p"), Entry("<int:5>")>>]),
     WithValue("o", [NoValue EXCEPT !.type = "object", !.properties = AList,
                                    !.props = <<Entry("name")>>]),
     WithValue("o", [NoValue EXCEPT !.type = "object", !.required = AList,
                                    !.req = <<AList>>]),
     [Opt("a") EXCEPT !.name = ADict],
     [NoOption EXCEPT !.name = "<int:5>", !.description = "d", !.options = AList,
                      !.opts = Distinct(<<Opt("n")>>)]}

\* A section: an option with nested options, one of them templated.
Section ==
    [NoOption EXCEPT !.name = "s", !.description = "d", !.options = AList,
                     !.opts = Distinct(<<Opt("n"), Templated("list1"), Opt("n")>>)]

File(n, opts) == [NoFile EXCEPT !.name = n, !.options = AList, !.opts = Distinct(opts)]

\* The entries the files lists are made of.
FilePool ==
    {File("test.yaml", <<Opt("a")>>),
     File("test.yaml", ValueOptions),
     File("other.yaml",
          <<Section, Templated("list3"), Opt("t1"), Templated("scalar"),
            Templated("missing"), [NoOption EXCEPT !.py = "<int:5>"], Opt("a")>>),
     [File("auto_conf.yaml", <<Opt("a")>>) EXCEPT !.example_name = "x.yaml"],
     [File("test.yaml", <<Opt("a")>>) EXCEPT !.example_name = "<int:5>"],
     [File("test.yaml", <<Opt("a")>>) EXCEPT !.example_name = AList],
     [NoFile EXCEPT !.py = "<int:5>"],
     NoFile,
     [NoFile EXCEPT !.name = "<int:5>"],
     [NoFile EXCEPT !.name = "test.yaml"],
     [NoFile EXCEPT !.name = "test.yaml", !.options = "<int:5>"]}
    \cup {File("test.yaml", <<Opt("a"), o>>) : o \in RaisingOptions}

GoodSpec == [NoSpec EXCEPT !.name = "Test", !.files = AList]

Specifications ==
    {[NoSpec EXCEPT !.py = AList],
     NoSpec,
     [NoSpec EXCEPT !.name = "<int:5>"],
     [NoSpec EXCEPT !.name = "Test"],
     [NoSpec EXCEPT !.name = "Test", !.version = "<int:5>"],
     [NoSpec EXCEPT !.name = "Test", !.version = "2.0.0"],
     [NoSpec EXCEPT !.name = "Test", !.version = "2.0.0", !.files = ADict]}
    \cup {[GoodSpec EXCEPT !.fs = fs] : fs \in SeqsUpTo(FilePool, 0, MaxFiles)}
    \cup {[GoodSpec EXCEPT !.fs = <<f>>, !.version = "2.0.0"] : f \in FilePool}

\* The loaders: source and version as given to the loader.
Loaders ==
    {Loader("test", "1.0.0", Templates),
     Loader(None_, None_, Templates),
     Loader("Active MQ", "1.0.0", Templates)}

\* ------------------------------------------------------------ state machine
VARIABLES
    heap,        \* the mutable configuration objects, by reference
    query_data,  \* Query.query_data: a reference, or Deleted
    name, query, columns, extras, tags,   \* the Query's compiled attributes
    last,        \* the latest compile call: its arguments and what it did
    transform,   \* a transform built by calling a factory directly
    invocation,  \* the latest call of that transform
    substitution,  \* the latest rewriting of an expression text
    builtins,    \* ALLOWED_GLOBALS['__builtins__']: the names it holds
    evaluation,  \* the latest evaluation of a compiled expression
    loader,      \* the loader handed to the spec validators
    validation   \* the latest validator call: its argument and how it ended

vars == <<heap, query_data, name, query, columns, extras, tags, last, transform,
          invocation, substitution, builtins, evaluation, loader, validation>>

\* The state of the expression sub-compiler.
exprvars == <<substitution, builtins, evaluation>>

NotSubstituted ==
    [done |-> FALSE, names |-> <<>>, text |-> <<>>, matches |-> <<>>,
     rewritten |-> <<>>]

NotEvaluated ==
    [done |-> FALSE, expr |-> Expr(None_, None_, None_, None_), row |-> None_,
     exc |-> NoExc, ret |-> None_]

\* The module as imported: no expression rewritten or evaluated yet.
ExprIdle ==
    /\ substitution = NotSubstituted
    /\ builtins = ALLOWED_BUILTINS
    /\ evaluation = NotEvaluated

\* The state of the spec validators.
specvars == <<loader, validation>>

\* No validator has been called.
NotValidated ==
    [called |-> None_, given |-> NoSpec, spec |-> NoSpec, given_options |-> <<>>,
     options |-> <<>>, errors |-> <<>>, exc |-> NoExc, visited |-> <<>>]

\* The validators of spec.py have not been used.
SpecIdle ==
    /\ loader = Loader("test", "1.0.0", Templates)
    /\ validation = NotValidated

\* No factory has been called directly, and no transform.
NotBuilt == [built |-> FALSE, exc |-> NoExc, tr |-> NoTr, calls |-> <<>>]

NotInvoked ==
    [invoked |-> FALSE, args |-> <<>>, kwargs |-> None_, exc |-> NoExc,
     ret |-> None_, calls |-> <<>>]

Deleted == "<deleted>"

CallerRef == "caller"

\* The caller's object kept as it is, not copied.
SameObject(ref) == ref

\* deepcopy(query_data or {}): a fresh object with the same contents.
deepcopy(ref) == "copy"

NoCall ==
    [called |-> FALSE, noop |-> FALSE, exc |-> NoExc, at |-> NoAt, raw |-> NoExc,
     calls |-> <<>>, sources |-> <<>>, column_transformers |-> <<>>,
     extra_transformers |-> <<>>, registry |-> <<>>, pre |-> <<>>]

\* Query.__init__ (query.py 12-18).
Construct(cfg) ==
        /\ query_data = deepcopy(CallerRef)
        /\ heap = [r \in {CallerRef, query_data} |-> cfg]
        /\ name = None_
        /\ query = None_
        /\ columns = PyNone
        /\ extras = PyNone
        /\ tags = PyNone
        /\ last = NoCall
        /\ transform = NotBuilt
        /\ invocation = NotInvoked
        /\ ExprIdle
        /\ SpecIdle

Init ==
    \/ \E cfg \in ListConfigs : Construct(cfg)
    \/ \E cfg \in ShapeConfigs : Construct(cfg)
    \/ \E cfg \in FieldConfigs : Construct(cfg)

\* The check for a previous compilation left out.
CompiledNever(query_name) == FALSE

\* The check for a previous compilation (line 22).
Compiled(query_name) == query_name # None_

\* The registry object the caller passed as column_transformers.
RegistryRef == "column_transformers"

\* The caller's registry object used as it is, not copied.
SameDict(ref) == ref

\* column_transformers.copy() (line 106): a new dict with the same entries.
CopyDict(ref) == "submission_transformers"

\* The registry objects after line 106-107: the copy was made and 'tag' was
\* popped from it.
PopTag(column_transformers) ==
    [r \in {RegistryRef, CopyDict(RegistryRef)} |->
        IF r = CopyDict(RegistryRef) THEN WithoutTag(column_transformers)
        ELSE column_transformers]

\* compile got as far as line 107.
ReachedPop(out) ==
    \/ ~out.exc.raised
    \/ out.at.loop = "extras"
    \/ out.at = At("fields", 0, "extras")

\* The caller's registry object as the compile call leaves it.
RegistryAfter(out, column_transformers) ==
    IF ReachedPop(out) THEN PopTag(column_transformers)[RegistryRef]
    ELSE column_transformers

\* The effect of a compile call whose body produced out: the attributes are
\* assigned and query_data is deleted only when nothing was raised.
Finish(out, column_transformers, extra_transformers) ==
    /\ last' = [called |-> TRUE, noop |-> FALSE, exc |-> out.exc,
                at |-> out.at, raw |-> out.raw, calls |-> out.calls,
                sources |-> out.sources,
                column_transformers |-> column_transformers,
                extra_transformers |-> extra_transformers,
                registry |-> RegistryAfter(out, column_transformers),
                pre |-> heap[query_data]]
    /\ name' = out.name
    /\ query' = out.query
    /\ columns' = out.columns
    /\ extras' = out.extras
    /\ tags' = out.tags
    /\ query_data' = IF out.exc.raised THEN query_data ELSE Deleted
    /\ heap' = IF out.exc.raised
               THEN [heap EXCEPT ![query_data] = out.query_data]
               ELSE [r \in {CallerRef} |->
                        IF query_data = r THEN out.query_data ELSE heap[r]]

\* Reading self.query_data after it was deleted is an AttributeError.
NoQueryData ==
    /\ last' = [NoCall EXCEPT !.called = TRUE,
                              !.exc = Exc("AttributeError", <<"query_data">>)]
    /\ UNCHANGED <<heap, query_data, name, query, columns, extras, tags>>

\* Query.compile (query.py 20-172) with the given registries.
Compile(column_transformers, extra_transformers) ==
    /\ UNCHANGED <<transform, invocation, exprvars, specvars>>
    /\ IF Compiled(name)
       THEN /\ last' = [NoCall EXCEPT !.called = TRUE, !.noop = TRUE]
            /\ UNCHANGED <<heap, query_data, name, query, columns, extras, tags>>
       ELSE IF query_data = Deleted
       THEN NoQueryData
       ELSE Finish(compile_body(heap[query_data], column_transformers,
                                extra_transformers),
                   column_transformers, extra_transformers)

\* The caller goes on using the object it passed to Query(): it reuses the
\* mapping for another query.
CallerMutates ==
    /\ heap[CallerRef].name # "reused"
    /\ heap' = [heap EXCEPT ![CallerRef] =
                   [@ EXCEPT !.name = "reused", !.columns = PyList(<<>>)]]
    /\ UNCHANGED <<query_data, name, query, columns, extras, tags, last, transform,
                   invocation, exprvars, specvars>>

Next ==
    \/ \E r \in Registries : Compile(r[1], r[2])
    \/ CallerMutates

Spec == Init /\ [][Next]_vars

\* ------------------------------------------- state machine: calling transforms
\* The column types and modifiers a factory is called with directly.
BuildChoices ==
    {<<t, NoMods>> : t \in {"tag", "gauge", "monotonic_gauge"}}
    \cup {<<"temporal_percent", [NoMods EXCEPT !.scale = s]>> : s \in ScaleChoices}
    \cup {<<"match", [NoMods EXCEPT !.items = its, !.source = src]>> :
            its \in ItemsChoices, src \in {None_, "b"}}

\* The registries the factory is handed: with the caller's submission
\* factories, and with ones that raise.
BuildRegistries ==
    {FullRegistry,
     COLUMN_TRANSFORMERS @@ [gauge |-> "submit", rate |-> "submit",
                             monotonic_count |-> "raises"]}

\* The raw values and keyword contexts a transform is called with.
RawValues == {"OK", "BAD", "NOPE"}

Contexts == {"tags=[]", "tags=[env:prod]"}

ArgChoices ==
    {<<v>> : v \in RawValues} \cup {<<v, r>> : v \in RawValues, r \in DOMAIN RowMaps}

\* No Query is involved.
NoQuery ==
    /\ heap = <<>>
    /\ query_data = Deleted
    /\ name = None_
    /\ query = None_
    /\ columns = PyNone
    /\ extras = PyNone
    /\ tags = PyNone
    /\ last = NoCall

InitCall ==
    NoQuery /\ transform = NotBuilt /\ invocation = NotInvoked /\ ExprIdle /\ SpecIdle

\* What is kept of a direct factory call.
Built(made) == [built |-> TRUE, exc |-> made.exc, tr |-> made.tr, calls |-> made.calls]

\* transformers[type](name, transformers, **modifiers), called directly.
Build(type, modifiers, transformers) ==
    /\ ~transform.built
    /\ transform' = Built(CallFactory(transformers[type], "c", transformers, modifiers))
    /\ UNCHANGED <<heap, query_data, name, query, columns, extras, tags, last,
                   invocation, exprvars, specvars>>

\* What is kept of a call of the transform.
Invoked(args, kwargs, res) ==
    [invoked |-> TRUE, args |-> args, kwargs |-> kwargs, exc |-> res.exc,
     ret |-> res.ret, calls |-> res.calls]

\* transform(*args, **kwargs) on a transform a factory returned.
CallTransform(args, kwargs) ==
    /\ transform.built
    /\ ~transform.exc.raised
    /\ invocation' = Invoked(args, kwargs, Invoke(transform.tr, args, kwargs))
    /\ UNCHANGED <<heap, query_data, name, query, columns, extras, tags, last,
                   transform, exprvars, specvars>>

NextCall ==
    \/ \E b \in BuildChoices, r \in BuildRegistries : Build(b[1], b[2], r)
    \/ \E args \in ArgChoices, kwargs \in Contexts : CallTransform(args, kwargs)

SpecCall == InitCall /\ [][NextCall]_vars

\* ----------------------------------- state machine: rewriting expressions
\* The declared source names, in declaration order: one name a prefix of
\* another, in both orders, alone and with a third name.
NameLists ==
    {<<<<"a">>, <<"a", "b">>>>,
     <<<<"a", "b">>, <<"a">>>>,
     <<<<"a">>, <<"a", "b">>, <<"c">>>>,
     <<<<"c">>, <<"a", "b">>, <<"a">>>>}

Texts == SeqsUpTo(Chars, 1, MaxText)

InitSub ==
    /\ NoQuery
    /\ transform = NotBuilt
    /\ invocation = NotInvoked
    /\ ExprIdle
    /\ SpecIdle

\* The rewriting get_expression does before it compiles the text
\* (line 97-112, verbose not set).
Substitute(names, text) ==
    /\ ~substitution.done
    /\ substitution' =
          [done |-> TRUE, names |-> names, text |-> text,
           matches |-> Matches(text, names),
           rewritten |-> Replace(text, 1, Matches(text, names), 1)]
    /\ UNCHANGED <<heap, query_data, name, query, columns, extras, tags, last,
                   transform, invocation, builtins, evaluation, specvars>>

NextSub == \E names \in NameLists, text \in Texts : Substitute(names, text)

SpecSub == InitSub /\ [][NextSub]_vars

\* ----------------------------------- state machine: evaluating expressions
\* The compiled expressions evaluated, as they are after the rewriting.
Expressions ==
    {Expr("source", "a", None_, None_),
     Expr("call", "abs", None_, "a"),
     Expr("call", "len", None_, "b"),
     Expr("call", "open", None_, "a"),
     Expr("name", "x", None_, None_),
     Expr("name", "open", None_, None_),
     Expr("name", "__import__", None_, None_),
     Expr("name", "max", None_, None_),
     Expr("name", "SOURCES", None_, None_),
     Expr("name", "__builtins__", None_, None_),
     Expr("attribute", "SOURCES", "__class__", None_),
     Expr("attribute", "abs", "__class__", None_),
     Expr("attribute", "abs", "denominator", None_),
     Expr("method", "SOURCES", "get", "a"),
     Expr("method", "__builtins__", "get", "abs"),
     Expr("method", "__builtins__", "pop", "abs"),
     Expr("method", "__builtins__", "pop", "len")}

InitEval == InitSub

\* What is kept of one evaluation.
Evaluation(e, row, res) ==
    [done |-> TRUE, expr |-> e, row |-> row, exc |-> res.exc, ret |-> res.ret]

\* execute_expression(sources, **kwargs) without a submit_type (line 132-133):
\* one evaluation of the compiled expression for one row.
Evaluate(e, row) ==
    /\ evaluation' = Evaluation(e, row, Eval(e, row, builtins))
    /\ builtins' = Eval(e, row, builtins).builtins
    /\ UNCHANGED <<heap, query_data, name, query, columns, extras, tags, last,
                   transform, invocation, substitution, specvars>>

NextEval == \E e \in Expressions, row \in DOMAIN RowMaps : Evaluate(e, row)

SpecEval == InitEval /\ [][NextEval]_vars

\* ------------------------------------------ state machine: validating specs
InitValidate ==
    /\ NoQuery
    /\ transform = NotBuilt
    /\ invocation = NotInvoked
    /\ ExprIdle
    /\ loader \in Loaders
    /\ validation = NotValidated

\* What is kept of a call of spec_validator: the specification as given and
\* as the call left it, the errors of the loader after it, and the exception.
SpecValidation(spec, res) ==
    [NotValidated EXCEPT !.called = "spec_validator", !.given = spec,
                         !.spec = res.obj, !.errors = res.errors, !.exc = res.exc]

\* What is kept of a call of options_validator.
OptionsValidation(option_list, res) ==
    [NotValidated EXCEPT !.called = "options_validator",
                         !.given_options = option_list, !.options = res.obj,
                         !.errors = res.errors, !.exc = res.exc,
                         !.visited = res.visited]

\* spec_validator(spec, loader) for a specification as loaded.
SpecValidator(spec) ==
    /\ validation.called = None_
    /\ validation' = SpecValidation(spec, spec_validator(spec, loader))
    /\ loader' = [loader EXCEPT !.errors = validation'.errors]
    /\ UNCHANGED <<heap, query_data, name, query, columns, extras, tags, last,
                   transform, invocation, exprvars>>

\* options_validator(options, loader, file_name) for a list of options.
OptionsValidator(option_list) ==
    /\ validation.called = None_
    /\ validation' = OptionsValidation(option_list,
                          options_validator(option_list, Ctx("test.yaml", <<>>),
                                            loader.templates, loader.errors))
    /\ loader' = [loader EXCEPT !.errors = validation'.errors]
    /\ UNCHANGED <<heap, query_data, name, query, columns, extras, tags, last,
                   transform, invocation, exprvars>>

NextValidate ==
    \/ \E spec \in Specifications : SpecValidator(spec)
    \/ \E option_list \in OptionLists : OptionsValidator(option_list)

SpecValidate == InitValidate /\ [][NextValidate]_vars

\* --------------------------------------------------------------- properties
\* The latest compile call ran the body (it was not the no-op).
Ran == last.called /\ ~last.noop

Succeeded == Ran /\ ~last.exc.raised

Failed == Ran /\ last.exc.raised

Range(seq) == {seq[k] : k \in 1..Len(seq)}

\* C1: once compile has succeeded, a later compile call, whatever the
\* registries, changes none of name, query, columns, extras and tags, calls
\* no factory and raises nothing.
C1_RecompileIsNoop ==
    [][name # None_ =>
          /\ name' = name /\ query' = query /\ columns' = columns
          /\ extras' = extras /\ tags' = tags /\ query_data' = query_data
          /\ (last' # last =>
                last'.noop /\ last'.calls = <<>> /\ ~last'.exc.raised)]_vars

C1_Witness == last.noop /\ name = "q" /\ Len(columns.v) > 1 /\ Len(extras.v) > 0

\* C2: compilation is all-or-nothing: when compile raises, at whatever point,
\* name, query, columns, extras and tags are all still None and the raw
\* configuration is still held, so the Query does not count as compiled;
\* the attributes are set, and the raw configuration dropped, only together.
C2_AllOrNothing ==
    /\ Failed =>
          /\ name = None_ /\ query = None_ /\ columns = PyNone
          /\ extras = PyNone /\ tags = PyNone
          /\ query_data # Deleted
    /\ (name = None_) <=> (query_data # Deleted)
    /\ name = None_ => query = None_ /\ columns = PyNone /\ extras = PyNone
    /\ name # None_ => query # None_ /\ columns # PyNone /\ extras # PyNone

C2_Witness ==
    /\ Failed
    /\ last.at = At("extras", 2, "factory")
    /\ Len(last.calls) > 1

\* The names a configuration declares, in compile's order: the columns, then
\* the extras, each with its kind and 1-based position in its own list.
Declares(entry) == entry.shape = "map" /\ IsStr(entry.name) /\ entry.name # ""

Declarations(data) ==
    [k \in 1..(Len(data.columns.v) + Len(data.extras.v)) |->
        IF k <= Len(data.columns.v)
        THEN [kind |-> "column", index |-> k, entry |-> data.columns.v[k]]
        ELSE [kind |-> "extra", index |-> k - Len(data.columns.v),
              entry |-> data.extras.v[k - Len(data.columns.v)]]]

\* The flat positions k whose name some earlier position already declared.
Redeclared(decls) ==
    {k \in 1..Len(decls) :
        /\ Declares(decls[k].entry)
        /\ \E j \in 1..(k - 1) :
              Declares(decls[j].entry) /\ decls[j].entry.name = decls[k].entry.name}

FirstDefiner(decls, k) ==
    decls[Min({j \in 1..(k - 1) :
                 Declares(decls[j].entry)
                 /\ decls[j].entry.name = decls[k].entry.name})]

\* How far compile got when it raised, as a flat position: the field checks
\* come before everything, the pop of 'tag' and the check of extras come
\* between the columns and the extras.
Reached(at, data) ==
    IF at.loop = "columns" THEN 2 * at.index
    ELSE IF at.loop = "extras" THEN 2 * (Len(data.columns.v) + at.index)
    ELSE IF at.loop = "pop" \/ at.stage = "extras" THEN 2 * Len(data.columns.v) + 1
    ELSE 0

\* C3: column and extra names form one flat namespace: a configuration that
\* declares a name twice never compiles, and when compile gets to the second
\* declaration it fails there, naming the duplicate, the first definer's kind
\* and its 1-based position in its own list (ignored columns counted).
C3_DuplicateNames ==
    (Ran /\ last.pre.columns.shape = "list" /\ last.pre.extras.shape = "list"
         /\ Redeclared(Declarations(last.pre)) # {}) =>
        LET decls == Declarations(last.pre)
            k == Min(Redeclared(decls))
            first == FirstDefiner(decls, k)
        IN  /\ last.exc.raised
            /\ Reached(last.at, last.pre) <= 2 * k
            /\ Reached(last.at, last.pre) = 2 * k =>
                  /\ last.at.stage = "duplicate"
                  /\ last.exc.kind = "ValueError"
                  /\ last.exc.msg =
                        <<"the name ", decls[k].entry.name, " of ", last.pre.name,
                          " was already defined in ", first.kind, " #",
                          ToString(first.index)>>

\* A second declaration among the extras, of a name first declared by the
\* column at position 2, behind an ignored column.
C3_Witness ==
    /\ Failed
    /\ last.at = At("extras", 1, "duplicate")
    /\ last.pre.columns.v[1].shape = "empty"
    /\ last.exc.msg = <<"the name ", "a", " of ", "q", " was already defined in ",
                        "column", " #", "2">>

\* The entry compile was working on when it raised.
EntryAt(data, at) ==
    IF at.loop = "columns" THEN data.columns.v[at.index] ELSE data.extras.v[at.index]

\* The names declared by the first k flat positions of a configuration.
NamesUpTo(data, k) ==
    {Declarations(data)[j].entry.name :
        j \in {j \in 1..k : Declares(Declarations(data)[j].entry)}}

\* The first type name a factory looks up in the registry it was handed and
\* does not find there, given modifiers that are otherwise valid; None_ when
\* there is none.
NestedUnknown(f, mods, reg, names) ==
    IF f = "get_monotonic_gauge"
    THEN IF "gauge" \notin DOMAIN reg THEN "gauge"
         ELSE IF reg["gauge"] = "submit" /\ "monotonic_count" \notin DOMAIN reg
         THEN "monotonic_count" ELSE None_
    ELSE IF f = "get_temporal_percent"
    THEN IF (mods.scale \in TIME_UNITS \/ IsIntScale(mods.scale))
            /\ "rate" \notin DOMAIN reg
         THEN "rate" ELSE None_
    ELSE IF f = "get_percent"
    THEN IF mods.part \in names /\ mods.total \in names /\ "gauge" \notin DOMAIN reg
         THEN "gauge" ELSE None_
    ELSE IF f = "get_expression"
    THEN IF IsStr(mods.expression) /\ mods.expression # ""
            /\ mods.expression \notin SyntaxErrorTexts
            /\ mods.submit_type # None_ /\ mods.submit_type \notin DOMAIN reg
         THEN mods.submit_type ELSE None_
    ELSE IF f = "get_match"
    THEN IF mods.items.shape = "map" /\ mods.items.entries # <<>>
            /\ mods.items.entries[1].data.shape = "map"
            /\ IsStr(mods.items.entries[1].data.name)
            /\ mods.items.entries[1].data.name # ""
            /\ IsStr(mods.items.entries[1].data.type)
            /\ mods.items.entries[1].data.type # ""
            /\ mods.items.entries[1].data.type \notin DOMAIN reg
         THEN mods.items.entries[1].data.type ELSE None_
    ELSE None_

\* The first unknown type name compile meets on one column or extra whose
\* name is valid: its own type, or one a level below.
FirstUnknown(entry, loop, names, ct, et) ==
    IF loop = "columns"
    THEN IF Falsy(entry.type) \/ ~IsStr(entry.type) \/ entry.type = "source"
         THEN None_
         ELSE IF entry.type \notin DOMAIN ct THEN entry.type
         ELSE NestedUnknown(ct[entry.type], entry.mods, ct, names)
    ELSE IF (Falsy(entry.type) /\ entry.mods.expression = None_)
            \/ (~Falsy(entry.type) /\ ~IsStr(entry.type))
         THEN None_
         ELSE IF ExtraType(entry) \notin DOMAIN et \cup (DOMAIN ct \ {"tag"})
         THEN ExtraType(entry)
         ELSE IF ExtraType(entry) \in DOMAIN ct \ {"tag"}
                 /\ Falsy(entry.mods.source)
         THEN None_
         ELSE NestedUnknown(Get(et, ExtraType(entry), Get(ct, ExtraType(entry), None_)),
                            entry.mods, WithoutTag(ct), names)

\* C4: an unknown type name at any nesting level (a column's or extra's type,
\* also one defaulted to 'expression', a match item's type, an expression's
\* submit_type, a base type a meta-transformer looks up) makes compile fail
\* with the unknown-type error, a ValueError naming the unknown type, the
\* column or extra and the query; it is never ignored and never another
\* kind of failure.
C4_UnknownTypeReported ==
    /\ (Failed /\ last.at.stage \in {"type", "factory"}) =>
          LET entry == EntryAt(last.pre, last.at)
              unknown == FirstUnknown(entry, last.at.loop, DOMAIN last.sources,
                                      last.column_transformers,
                                      last.extra_transformers)
          IN  unknown # None_ =>
                /\ last.exc.kind = "ValueError"
                /\ {"unknown type ", "unknown submit_type "} \cap Range(last.exc.msg) # {}
                /\ {unknown, entry.name, last.pre.name} \subseteq Range(last.exc.msg)
    /\ Succeeded =>
          \A k \in 1..Len(Declarations(last.pre)) :
              FirstUnknown(Declarations(last.pre)[k].entry,
                           Declarations(last.pre)[k].kind \o "s",
                           NamesUpTo(last.pre, k),
                           last.column_transformers, last.extra_transformers) = None_

\* The extras of the compiled configuration whose type resolves to a
\* submission-style (column) transformer.
SubmissionExtras ==
    {i \in 1..Len(last.pre.extras.v) :
        ExtraType(last.pre.extras.v[i]) \in DOMAIN last.column_transformers \ {"tag"}}

\* C5: an extra whose type resolves to a submission-style transformer
\* compiles only if its source names a source that is in the Source Table
\* when the extra is compiled.
C5_SubmissionSourceDeclared ==
    Succeeded =>
        \A i \in SubmissionExtras :
            /\ IsStr(last.pre.extras.v[i].mods.source)
            /\ last.pre.extras.v[i].mods.source
                  \in NamesUpTo(last.pre, Len(last.pre.columns.v) + i)

\* The extras of the compiled configuration that the percent factory built.
PercentExtras ==
    {i \in 1..Len(last.pre.extras.v) :
        /\ ExtraType(last.pre.extras.v[i]) = "percent"
        /\ "percent" \in DOMAIN last.extra_transformers
        /\ last.extra_transformers["percent"] = "get_percent"}

\* C6: a percent extra compiles only if part and total both name sources
\* declared before it: a column, or an extra at an earlier position.
C6_PercentReferencesEarlier ==
    Succeeded =>
        \A i \in PercentExtras :
            {last.pre.extras.v[i].mods.part, last.pre.extras.v[i].mods.total}
                \subseteq NamesUpTo(last.pre, Len(last.pre.columns.v) + i - 1)

\* The factory call compile made for the entry it failed on, made again from
\* the call's arguments.
FactoryCallAt(data, at, sources, ct, et) ==
    IF at.loop = "columns"
    THEN CallFactory(ct[EntryAt(data, at).type], EntryAt(data, at).name, ct,
                     EntryAt(data, at).mods)
    ELSE CallFactory(
             Get(et, ExtraType(EntryAt(data, at)),
                 Get(WithoutTag(ct), ExtraType(EntryAt(data, at)), None_)),
             EntryAt(data, at).name, WithoutTag(ct),
             IF ExtraType(EntryAt(data, at)) \in DOMAIN WithoutTag(ct)
             THEN [EntryAt(data, at).mods EXCEPT !.source = None_]
             ELSE [EntryAt(data, at).mods EXCEPT !.sources = sources])

C8_IgnoredColumn ==
    Succeeded =>
        \A i \in 1..Len(last.pre.columns.v) :
            last.pre.columns.v[i].shape = "empty" =>
                /\ columns.v[i] = [name |-> None_, binding |-> NoneBinding]
                /\ \A n \in DOMAIN last.sources :
                      ~(last.sources[n].type = "column" /\ last.sources[n].index = i)
                /\ \A c \in Range(last.calls) : c.owner # Owner("columns", i)

C8_Witness ==
    /\ Succeeded
    /\ Len(columns.v) = 3
    /\ last.pre.columns.v[2].shape = "empty"
    /\ columns.v[3].binding.tr.f = "submit"

\* C9: the binding of a non-empty column follows from its type alone:
\* 'source' registers the name and gives (None, None) with no factory looked
\* up or called, whatever the registry holds under 'source'; 'tag' gives
\* ('tag', transform); every other type gives (None, transform).
C9_BindingByType ==
    Succeeded =>
        \A i \in 1..Len(last.pre.columns.v) :
            last.pre.columns.v[i].shape = "map" =>
                LET type == last.pre.columns.v[i].type
                    made == {c \in Range(last.calls) : c.owner = Owner("columns", i)}
                IN  /\ columns.v[i].name = last.pre.columns.v[i].name
                    /\ ~columns.v[i].binding.isNone
                    /\ last.sources[columns.v[i].name] = [type |-> "column", index |-> i]
                    /\ type = "source" =>
                          /\ columns.v[i].binding.kind = None_
                          /\ columns.v[i].binding.tr = NoTr
                          /\ made = {}
                    /\ type = "tag" =>
                          /\ columns.v[i].binding.kind = "tag"
                          /\ columns.v[i].binding.tr # NoTr
                          /\ made # {}
                    /\ type \notin {"source", "tag"} =>
                          /\ columns.v[i].binding.kind = None_
                          /\ columns.v[i].binding.tr # NoTr
                          /\ made # {}

C9_Witness ==
    /\ Succeeded
    /\ "source" \in DOMAIN last.column_transformers
    /\ Len(columns.v) = 3
    /\ last.pre.columns.v[1].type = "source"
    /\ last.pre.columns.v[2].type = "tag"
    /\ last.pre.columns.v[3].type = "gauge"

\* C10: neither constructing a Query nor compiling it modifies the object
\* the caller passed in, nested mappings included, and what the caller does
\* to that object afterwards does not change the configuration compile reads.
C10_CallerObjectUntouched ==
    [][/\ last' # last => heap'[CallerRef] = heap[CallerRef]
       /\ (last' = last /\ query_data # Deleted) =>
             /\ query_data' = query_data
             /\ heap'[query_data] = heap[query_data]]_vars

\* The caller has changed its object and compile, running after that on the
\* configuration as given, has popped keys of nested match items.
C10_Witness ==
    /\ Failed
    /\ last.pre.name = "q"
    /\ heap[CallerRef].name = "reused"
    /\ query_data # Deleted
    /\ heap[query_data] # last.pre

\* C11: after a successful compile Query.tags is a list: the configured list
\* when tags is given, the empty list when tags is absent; a tags value that
\* is not a list makes compile fail.
C11_TagsIsList ==
    /\ Succeeded =>
          /\ tags.shape = "list"
          /\ last.pre.tags.shape = "list" => tags = last.pre.tags
          /\ last.pre.tags.shape = "absent" => tags = PyList(<<>>)
    /\ (Ran /\ last.pre.tags.shape \notin {"list", "absent"}) => Failed

\* The modifiers the directly called factory was handed.
BuiltWith == transform.calls[1].mods

\* The configured match items whose key is the raw value.
ItemsFor(value) ==
    {k \in 1..Len(BuiltWith.items.entries) : BuiltWith.items.entries[k].key = value}

\* The source configured for a match item: its own, else the modifier-level
\* default.
ItemSource(item) ==
    IF item.data.source # None_ THEN item.data.source ELSE BuiltWith.source

\* A compiled match transform was called with a raw value and a row.
MatchCalled ==
    /\ invocation.invoked
    /\ transform.tr.f = "match"
    /\ Len(invocation.args) = 2

\* C12: a compiled match transform called with raw value v and the row's
\* source map: when v is a key of items (and the row holds that item's
\* source), it calls exactly that item's sub-transform, once, with the value
\* of the item's source (its own source, else the modifier-level default)
\* and the caller's keyword context; when v is not a key of items it calls
\* no sub-transform and raises nothing.
C12_MatchDispatch ==
    MatchCalled =>
        /\ ItemsFor(invocation.args[1]) = {} =>
              /\ invocation.calls = <<>>
              /\ ~invocation.exc.raised
        /\ \A k \in ItemsFor(invocation.args[1]) :
              LET item == BuiltWith.items.entries[k]
                  row == RowMaps[invocation.args[2]]
              IN  ItemSource(item) \in DOMAIN row =>
                    /\ Len(invocation.calls) = 1
                    /\ invocation.calls[1].tr.n = item.data.name
                    /\ invocation.calls[1].tr = transform.tr.sub[k].sub[1]
                    /\ invocation.calls[1].args = <<row[ItemSource(item)]>>
                    /\ invocation.calls[1].kwargs = invocation.kwargs

\* The raw value selected the second item, which has no source of its own:
\* its sub-transform got the value of the default source.
C12_Witness ==
    /\ MatchCalled
    /\ invocation.args = <<"BAD", "row1">>
    /\ ~invocation.exc.raised
    /\ Len(BuiltWith.items.entries) = 2
    /\ BuiltWith.items.entries[2].data.source = None_
    /\ BuiltWith.source = "b"
    /\ Len(invocation.calls) = 1
    /\ invocation.calls[1].args = <<"7">>
    /\ invocation.kwargs = "tags=[env:prod]"

\* A compiled monotonic_gauge transform was called with a value.
MonotonicGaugeCalled ==
    /\ invocation.invoked
    /\ transform.tr.f = "monotonic_gauge"
    /\ invocation.args # <<>>

TemporalPercentBuilt ==
    /\ transform.built
    /\ transform.calls[1].f = "get_temporal_percent"

\* The scale values that are integers greater than zero.
PositiveScales == {"<int:1000>", "<int:1>"}

\* C14: the temporal_percent factory returns a transform only when scale is
\* a recognized time-unit name or a positive integer; a missing scale, an
\* unknown unit name, a non-integer, and a zero or negative integer are
\* rejected when the factory is called.
C14_ScaleValidated ==
    TemporalPercentBuilt =>
        (~transform.exc.raised <=> BuiltWith.scale \in TIME_UNITS \cup PositiveScales)

\* The positions at which a name occurs in a text.
Occurrences(text, n) == {p \in 1..Len(text) : OccursAt(text, p, n)}

\* An occurrence with no quote right before or right after it.
Bare(text, p, n) == LookBehind(text, p) /\ LookAhead(text, p + Len(n))

\* The pairs of declared names of which the first is a proper prefix of the
\* second.
PrefixPairs(names) ==
    {pr \in Range(names) \X Range(names) :
        Len(pr[1]) < Len(pr[2]) /\ SubSeq(pr[2], 1, Len(pr[1])) = pr[1]}

\* Position p lies inside an occurrence of the name.
InsideOccurrence(text, p, n) ==
    \E q \in Occurrences(text, n) : q <= p /\ p < q + Len(n)

\* Every bare occurrence of the longer name is rewritten as a reference to
\* the longer name.
LongerRewritten(text, found, long) ==
    \A p \in Occurrences(text, long) :
        Bare(text, p, long) => [pos |-> p, name |-> long] \in Range(found)

\* The shorter name is never matched inside an occurrence of the longer one.
ShorterNeverInside(text, found, short, long) ==
    \A k \in 1..Len(found) :
        found[k].name = short => ~InsideOccurrence(text, found[k].pos, long)

\* Every bare occurrence of a name that is not part of an occurrence of a
\* longer name is rewritten, and no two rewritings overlap.
BareOnce(text, found, names) ==
    /\ \A n \in Range(names) : \A p \in Occurrences(text, n) :
          (/\ Bare(text, p, n)
           /\ \A pr \in PrefixPairs(names) :
                 pr[1] = n => ~InsideOccurrence(text, p, pr[2]))
          => [pos |-> p, name |-> n] \in Range(found)
    /\ \A j, k \in 1..Len(found) :
          j < k => found[j].pos + Len(found[j].name) <= found[k].pos

\* C15: the substitution is longest-match-first: for declared names of which
\* one is a prefix of another, every occurrence of the longer name is
\* rewritten as one reference to the longer name, the shorter name is never
\* matched inside it, and each bare occurrence of a source name is
\* substituted exactly once.
C15_LongestMatchFirst ==
    substitution.done =>
        /\ \A pr \in PrefixPairs(substitution.names) :
              /\ LongerRewritten(substitution.text, substitution.matches, pr[2])
              /\ ShorterNeverInside(substitution.text, substitution.matches,
                                    pr[1], pr[2])
        /\ BareOnce(substitution.text, substitution.matches, substitution.names)

\* The extras of the configuration whose type is 'tag'.
TagExtras ==
    {i \in 1..Len(last.pre.extras.v) :
        last.pre.extras.v[i].shape = "map" /\ last.pre.extras.v[i].type = "tag"}

\* C16: an extra can never use the tag column transformer as its type: with
\* registries that have 'tag' only among the column transformers, an extra
\* of type 'tag' fails compilation as an unknown type; the registry handed
\* to every extra factory, and through it to the factories of an
\* expression's submit_type and of percent's gauge, is the column registry
\* minus 'tag'; the caller's column registry is left as it was.
C16_NoTagForExtras ==
    Ran =>
        /\ "tag" \notin DOMAIN last.extra_transformers =>
              /\ Succeeded => TagExtras = {}
              /\ (Failed /\ last.at.loop = "extras" /\ last.at.index \in TagExtras
                  /\ last.at.stage \notin {"name", "duplicate"}) =>
                    /\ last.exc.kind = "ValueError"
                    /\ last.exc.msg =
                          <<"unknown type ", "tag", " for extra ",
                            last.pre.extras.v[last.at.index].name, " of ",
                            last.pre.name>>
        /\ \A k \in 1..Len(last.calls) :
              (\E i \in 1..Len(last.pre.extras.v) :
                    last.calls[k].owner = Owner("extras", i))
              => last.calls[k].reg = DOMAIN last.column_transformers \ {"tag"}
        /\ last.registry = last.column_transformers

\* An extra of type tag was refused although the column registry has tag.
C16_Witness ==
    /\ Failed
    /\ last.at = At("extras", 1, "type")
    /\ TagExtras = {1}
    /\ last.column_transformers["tag"] = "get_tag"
    /\ "tag" \in DOMAIN last.registry

\* C17: after a successful compile, columns has exactly as many entries as
\* the configured column list and extras as many as the configured extras
\* list, in declared order: columns[i-1] is (None, None) when entry i was
\* empty and otherwise carries the name declared at position i, and
\* extras[i-1] carries the name of extra i.
C17_PositionsPreserved ==
    Succeeded =>
        /\ columns.shape = "tuple"
        /\ extras.shape = "tuple"
        /\ Len(columns.v) = Len(last.pre.columns.v)
        /\ Len(extras.v) = Len(last.pre.extras.v)
        /\ \A i \in 1..Len(last.pre.columns.v) :
              IF last.pre.columns.v[i].shape = "empty"
              THEN columns.v[i] = [name |-> None_, binding |-> NoneBinding]
              ELSE /\ columns.v[i].name = last.pre.columns.v[i].name
                   /\ columns.v[i].name # None_
        /\ \A i \in 1..Len(last.pre.extras.v) :
              extras.v[i].name = last.pre.extras.v[i].name

\* An ignored column first, a named column after it, and an extra.
C17_Witness ==
    /\ Succeeded
    /\ Len(columns.v) = 2
    /\ last.pre.columns.v[1].shape = "empty"
    /\ columns.v[2].name = "a"
    /\ Len(extras.v) = 1
    /\ extras.v[1].name = "d"

\* C18: the value a compiled expression returns for a row depends only on
\* that row's source map: whatever was evaluated before, and however often,
\* an evaluation gives what it gives in the namespace as first set up; no
\* evaluation changes the result of a later one.
C18_ResultDependsOnRowOnly ==
    evaluation.done =>
        /\ evaluation.exc = Eval(evaluation.expr, evaluation.row, ALLOWED_BUILTINS).exc
        /\ evaluation.ret = Eval(evaluation.expr, evaluation.row, ALLOWED_BUILTINS).ret

\* C19: while a compiled expression is evaluated, the only names that
\* resolve are the 13 allowed built-ins and the current row's source map
\* (SOURCES); no other name resolves, and no attribute of any object can be
\* reached from an expression.
C19_OnlyAllowedNamesResolve ==
    evaluation.done =>
        /\ (evaluation.expr.node # "source" /\ evaluation.exc.kind # "NameError")
              => evaluation.expr.id \in ALLOWED_BUILTINS \cup Locals
        /\ evaluation.expr.node \in {"attribute", "method"} => evaluation.exc.raised

\* C20: compile does not modify the raw configuration the Query retains:
\* after a compile call that fails, query_data, nested match items
\* included, equals what it was before the call, so that compiling again
\* with the same registries fails with the same error at the same column or
\* extra.
C20_FailedCompileKeepsConfiguration ==
    [][(/\ last' # last
        /\ last'.called
        /\ last'.exc.raised
        /\ query_data' # Deleted)
       => /\ heap'[query_data'] = last'.pre
          /\ (/\ Failed
              /\ last'.column_transformers = last.column_transformers
              /\ last'.extra_transformers = last.extra_transformers)
             => (last'.exc = last.exc /\ last'.at = last.at)]_vars

\* A validator of spec.py was called and the call is over.
ValidatorCalled == validation.called # None_

\* C21: spec_validator and the validators it calls (files_validator,
\* options_validator, value_validator) never raise, whatever the specification
\* holds: every violation becomes an entry of loader.errors and the call
\* returns normally.
C21_ValidatorsNeverRaise == ValidatorCalled => ~validation.exc.raised

\* The option loads a template that is a non-empty list.
LoadsList(option, templates) ==
    /\ option.py = ADict
    /\ option.template # Missing
    /\ templates[option.template].py = AList
    /\ templates[option.template].items # <<>>

\* The option loads a template that is a mapping.
LoadsMapping(option, templates) ==
    /\ option.py = ADict
    /\ option.template # Missing
    /\ templates[option.template].py = ADict

RECURSIVE ExpectedIds(_, _, _, _)
\* The identities the list should hold once every templated option from
\* position p on is replaced by what it loads; at is the position the option
\* has in the list at the time it is reached.
ExpectedIds(given, templates, p, at) ==
    IF p > Len(given) THEN <<>>
    ELSE IF LoadsList(given[p], templates)
    THEN [k \in 1..Len(templates[given[p].template].items) |-> 10 * at + k]
         \o ExpectedIds(given, templates, p + 1,
                        at + Len(templates[given[p].template].items))
    ELSE IF LoadsMapping(given[p], templates)
    THEN <<10 * at + 1>> \o ExpectedIds(given, templates, p + 1, at + 1)
    ELSE <<given[p].id>> \o ExpectedIds(given, templates, p + 1, at + 1)

\* The identities of the entries of a list, in order.
Ids(list) == [k \in 1..Len(list) |-> list[k].id]

\* options_validator was called on a list and returned.
OptionsReturned == validation.called = "options_validator" /\ ~validation.exc.raised

\* C22: when an option's template loads to a non-empty list of k items, the
\* option is replaced in place by those k items in their order, every other
\* option keeps its place relative to the others, and the loop takes up each
\* of the k items and each later option exactly once, in order (for a call
\* of options_validator that returns).
C22_TemplateExpandedInPlace ==
    OptionsReturned =>
        /\ Ids(validation.options) =
              ExpectedIds(validation.given_options, loader.templates, 1, 1)
        /\ validation.visited = Ids(validation.options)

\* A list of three options whose second one loads a template of three items:
\* the list has five entries afterwards and the loop took up five objects.
C22_Witness ==
    /\ OptionsReturned
    /\ Len(validation.given_options) = 3
    /\ validation.given_options[2].template = "list3"
    /\ ~LoadsList(validation.given_options[1], loader.templates)
    /\ ~LoadsList(validation.given_options[3], loader.templates)
    /\ Len(validation.options) = 5
    /\ validation.visited = <<1, 21, 22, 23, 3>>

====
